---- MODULE Spec2Model ----
(***************************************************************************)
(* A model of shipengqi/gosh: the known-hosts trust store                  *)
(* (knownhosts.go), the credential resolver (Auth), the Client             *)
(* (gosh.go) and the remote command Cmd (cmd.go).                          *)
(*                                                                         *)
(* golang.org/x/crypto/ssh/knownhosts (go.mod: v0.42.0) is modelled by     *)
(* what it does at the two places knownhosts.go calls it: knownhosts.New   *)
(* parses the file into the host lines and the revoked keys, and the       *)
(* callback it returns checks the revoked keys first, then looks the host  *)
(* alias up (the remote address only when the alias is empty).             *)
(***************************************************************************)
EXTENDS Integers, Sequences, FiniteSets, TLC

VARIABLES
    store,      \* the known_hosts file: [status, lines]
    last,       \* the last call made on the package: its arguments and what it returned
    accepted,   \* history: the <<alias, key>> pairs AutoFixedHostKeyCallback has accepted
    client,     \* the caller's *Client (NoClient before a constructor succeeded)
    chans,      \* the secure channels ssh.Dial has opened: id -> "open" | "closed"
    cmd,        \* the caller's *Cmd (NoCmd before Command succeeded)
    sess,       \* the sessions minted on the channel: id -> [closed, started, calls]
    routines,   \* the calls in flight on the Cmd, step by step: caller -> [pc, op, ...]
    files       \* the local and the remote file system: path -> file or NoFile

vars == <<store, last, accepted, client, chans, cmd, sess, routines, files>>

----------------------------------------------------------------------------
(* Bounds *)

\* the known_hosts file holds at most this many lines
MaxLines == 2
\* ssh.Dial opens at most this many channels in a run
MaxChans == 2
\* a client mints at most this many sessions in a run
MaxSessions == 2
\* a remote process writes at most this many lines
MaxOut == 2
\* a caller passes at most this many entries to Setenv
MaxEnv == 2

----------------------------------------------------------------------------
(* Addresses, keys, errors *)

\* An address string "host:port"; port "" is a string without a port, and
\* host "" with port "" is the empty string.
Addr(h, p) == [host |-> h, port |-> p]
EmptyAddr == Addr("", "")

\* the aliases a host-key callback is called with (ssh.Dial passes host:port;
\* VerifyKnownHost and AppendKnownHost are exported and take any string)
HostArgs == {EmptyAddr, Addr("h1", ""), Addr("h1", "22"), Addr("h2", "2222")}
\* remote.String() of a net.Addr: always host:port
RemoteArgs == {Addr("h1", "22"), Addr("h2", "22")}
Keys == {"K1", "K2"}

NoErr == [kind |-> "nil", want |-> <<>>]
Err(kind) == [kind |-> kind, want |-> <<>>]
\* *knownhosts.KeyError with its Want list
KeyError(want) == [kind |-> "KeyError", want |-> want]

----------------------------------------------------------------------------
(* golang.org/x/crypto/ssh/knownhosts, as knownhosts.go uses it *)

\* net.SplitHostPort fails on a string without a port
SplitFails(a) == a.port = ""

\* knownhosts.Normalize: host and port split (port 22 when there is none);
\* the entry is the bare host for port 22 and "[host]:port" otherwise.
Normalize(a) ==
    LET host == a.host
        port == IF SplitFails(a) THEN "22" ELSE a.port
    IN IF port = "22" THEN <<host>> ELSE <<host, port>>

\* a host pattern of a line parsed back: "[host]:port", or host with port 22
PatternAddr(entry) ==
    IF Len(entry) = 2 THEN Addr(entry[1], entry[2]) ELSE Addr(entry[1], "22")

\* knownhosts.Line(addresses, key): one line of the file
Line(addresses, key) == [marker |-> "", hosts |-> addresses, key |-> key]
RevokedLine(key) == [marker |-> "@revoked", hosts |-> <<<<"*">>>>, key |-> key]

\* hostPatterns.match: some pattern of the line is the address
LineMatches(l, a) ==
    /\ l.marker = ""
    /\ \E i \in 1..Len(l.hosts) : PatternAddr(l.hosts[i]) = a

IsRevoked(lines, key) ==
    \E i \in 1..Len(lines) : lines[i].marker = "@revoked" /\ lines[i].key = key

RECURSIVE WantFrom(_, _, _, _)
\* hostKeyDB.checkAddr: walk the lines in order, collecting the keys of the
\* lines that match; nil at the first one that holds the presented key.
WantFrom(lines, i, a, key) ==
    IF i > Len(lines) THEN <<>>
    ELSE IF LineMatches(lines[i], a)
         THEN <<lines[i].key>> \o WantFrom(lines, i + 1, a, key)
         ELSE WantFrom(lines, i + 1, a, key)

checkAddr(lines, a, key) ==
    IF \E i \in 1..Len(lines) : LineMatches(lines[i], a) /\ lines[i].key = key
    THEN NoErr
    ELSE KeyError(WantFrom(lines, 1, a, key))

\* hostKeyDB.check, the callback knownhosts.New returns: revoked keys first,
\* then the alias when it is not empty (it must split), else the remote.
HostKeyDBCheck(lines, host, remote, key) ==
    IF IsRevoked(lines, key) THEN Err("RevokedError")
    ELSE IF SplitFails(remote) THEN Err("SplitHostPort")
    ELSE IF host # EmptyAddr
         THEN IF SplitFails(host) THEN Err("SplitHostPort")
              ELSE checkAddr(lines, Addr(host.host, host.port), key)
         ELSE checkAddr(lines, Addr(remote.host, remote.port), key)

----------------------------------------------------------------------------
(* knownhosts.go *)

\* the one known_hosts file of the model: DefaultKnownHostsPath() names it,
\* and so does the explicit path
KnownHostsPath == "known_hosts"
Paths == {"", KnownHostsPath}

\* DefaultKnownHostsPath: os.UserHomeDir fails when home is unset
DefaultKnownHostsPath(home) ==
    IF home THEN [path |-> KnownHostsPath, err |-> NoErr]
    ELSE [path |-> "", err |-> Err("HomeDir")]

\* knownhosts.New(fpath): the file must exist and parse
KnownhostsNew(st) ==
    IF st.status = "ok" THEN [lines |-> st.lines, err |-> NoErr]
    ELSE [lines |-> <<>>, err |-> Err("Load")]

\* DefaultHostKeyCallback: the callback over the default file, as loaded now
DefaultHostKeyCallback(st, home) ==
    LET p == DefaultKnownHostsPath(home)
    IN IF p.err # NoErr THEN [lines |-> <<>>, err |-> p.err]
       ELSE KnownhostsNew(st)

\* VerifyKnownHost: (found, err)
VerifyKnownHost(st, fpath, host, remote, key, home) ==
    LET cb == IF fpath # "" THEN KnownhostsNew(st) ELSE DefaultHostKeyCallback(st, home)
    IN IF cb.err # NoErr THEN [found |-> FALSE, err |-> cb.err]
       ELSE LET err == HostKeyDBCheck(cb.lines, host, remote, key)
            IN IF err = NoErr THEN [found |-> TRUE, err |-> NoErr]
               ELSE IF err.kind = "KeyError" /\ Len(err.want) > 0
                    THEN [found |-> TRUE, err |-> err]
                    ELSE [found |-> FALSE, err |-> NoErr]

\* Addresses without the comparison: the host is always written
AddressesNoDedup(host, remote) ==
    <<Normalize(remote), Normalize(host)>>

\* the addresses AppendKnownHost writes: the normalized remote, then the
\* normalized host when it differs
Addresses(host, remote) ==
    LET remoteNormalized == Normalize(remote)
        hostNormalized == Normalize(host)
    IN IF hostNormalized # remoteNormalized
       THEN <<remoteNormalized, hostNormalized>>
       ELSE <<remoteNormalized>>

\* the outcomes of the file system under AppendKnownHost
IOs == {"ok", "openfail"}

\* AppendKnownHost: [err, store]; O_CREATE makes an absent file an empty one
AppendKnownHost(st, fpath, host, remote, key, home, io) ==
    LET p == IF fpath = "" THEN DefaultKnownHostsPath(home)
             ELSE [path |-> fpath, err |-> NoErr]
    IN IF p.err # NoErr THEN [err |-> p.err, store |-> st]
       ELSE IF io = "openfail" THEN [err |-> Err("Open"), store |-> st]
       ELSE LET opened == [st EXCEPT !.status = IF @ = "absent" THEN "ok" ELSE @]
            IN [err |-> NoErr,
                store |-> [opened EXCEPT
                             !.lines = Append(@, Line(Addresses(host, remote), key))]]

\* AutoFixedHostKeyCallback: [err, store]
AutoFixedHostKeyCallback(st, host, remote, key, home, io) ==
    LET v == VerifyKnownHost(st, "", host, remote, key, home)
    IN IF v.found /\ v.err # NoErr THEN [err |-> v.err, store |-> st]
       ELSE IF v.found /\ v.err = NoErr THEN [err |-> NoErr, store |-> st]
       ELSE AppendKnownHost(st, "", host, remote, key, home, io)

----------------------------------------------------------------------------
(* Calls on the trust store *)

\* the last call on the trust store: its arguments, the environment it ran
\* in and the file as it was before the call
CallRecord(op, fpath, host, remote, key, home, io, before) ==
    [op |-> op, fpath |-> fpath, host |-> host, remote |-> remote, key |-> key,
     home |-> home, io |-> io, before |-> before]

NoCall == [op |-> "none", err |-> NoErr]

\* no *Client yet
NoClient ==
    [made |-> FALSE, auth |-> "none", callback |-> [kind |-> "none", lines |-> <<>>],
     conn |-> 0, addr |-> "", port |-> 0, chosenBy |-> "none"]

\* no file on either side
NoFiles == [local |-> <<>>, remote |-> <<>>]

\* no *Cmd yet
NoCmd == [made |-> FALSE, session |-> 0, ctx |-> "none", used |-> FALSE]

\* the environments a call on an explicit path or on the default path runs in
\* (os.UserHomeDir is only asked for the default path)
PathEnvs == {<<"", TRUE>>, <<"", FALSE>>, <<KnownHostsPath, TRUE>>}

\* a caller calls VerifyKnownHost(fpath, host, remote, key)
CallVerifyKnownHost ==
    \E pe \in PathEnvs, host \in HostArgs, remote \in RemoteArgs, key \in Keys :
        LET v == VerifyKnownHost(store, pe[1], host, remote, key, pe[2])
        IN /\ last' = CallRecord("VerifyKnownHost", pe[1], host, remote, key,
                                 pe[2], "ok", store) @@ [found |-> v.found, err |-> v.err]
           /\ UNCHANGED <<store, accepted, client, chans, cmd, sess, routines, files>>

\* a caller calls AppendKnownHost(fpath, host, remote, key)
CallAppendKnownHost ==
    \E pe \in PathEnvs, host \in HostArgs, remote \in RemoteArgs, key \in Keys,
       io \in IOs :
        LET r == AppendKnownHost(store, pe[1], host, remote, key, pe[2], io)
        IN /\ Len(r.store.lines) <= MaxLines
           /\ store' = r.store
           /\ last' = CallRecord("AppendKnownHost", pe[1], host, remote, key,
                                 pe[2], io, store) @@ [err |-> r.err]
           /\ UNCHANGED <<accepted, client, chans, cmd, sess, routines, files>>

\* one call of AutoFixedHostKeyCallback(host, remote, key) in an environment
AutoFixedStep(host, remote, key, home, io) ==
    LET r == AutoFixedHostKeyCallback(store, host, remote, key, home, io)
    IN /\ Len(r.store.lines) <= MaxLines
       /\ store' = r.store
       /\ last' = CallRecord("AutoFixedHostKeyCallback", "", host, remote, key,
                             home, io, store) @@ [err |-> r.err]

\* the handshake (or a caller) calls AutoFixedHostKeyCallback(host, remote, key)
CallAutoFixedHostKeyCallback ==
    \E host \in HostArgs, remote \in RemoteArgs, key \in Keys,
       home \in BOOLEAN, io \in IOs :
        /\ AutoFixedStep(host, remote, key, home, io)
        /\ UNCHANGED <<accepted, client, chans, cmd, sess, routines, files>>

\* the same call with the home directory set and the file system working,
\* and the history of what was accepted kept
TrackAutoFixedHostKeyCallback ==
    \E host \in HostArgs, remote \in RemoteArgs, key \in Keys :
        /\ AutoFixedStep(host, remote, key, TRUE, "ok")
        /\ accepted' = IF last'.err = NoErr THEN accepted \cup {<<host, key>>}
                       ELSE accepted
        /\ UNCHANGED <<client, chans, cmd, sess, routines, files>>

\* the known_hosts files a run starts from
InitStores ==
    { [status |-> "absent", lines |-> <<>>],
      [status |-> "ok", lines |-> <<>>],
      [status |-> "corrupt", lines |-> <<>>],
      [status |-> "ok", lines |-> <<Line(<<Normalize(Addr("h1", "22"))>>, "K1")>>],
      [status |-> "ok", lines |-> <<RevokedLine("K2")>>] }

----------------------------------------------------------------------------
(* Specifications of the trust store on one known_hosts file *)

InitHosts ==
    /\ store \in InitStores
    /\ last = NoCall
    /\ accepted = {}
    /\ client = NoClient
    /\ chans = <<>>
    /\ cmd = NoCmd
    /\ sess = <<>>
    /\ routines = <<>>
    /\ files = NoFiles

\* VerifyKnownHost and AppendKnownHost called in any order
NextStore ==
    \/ CallVerifyKnownHost
    \/ CallAppendKnownHost

SpecStore == InitHosts /\ [][NextStore]_vars

\* AutoFixedHostKeyCallback called any number of times, in any environment
NextAutoFixed == CallAutoFixedHostKeyCallback

SpecAutoFixed == InitHosts /\ [][NextAutoFixed]_vars

\* AutoFixedHostKeyCallback called any number of times, with its history,
\* on a known_hosts file that starts absent or empty
InitTofu ==
    /\ InitHosts
    /\ store.lines = <<>>
    /\ store.status \in {"absent", "ok"}

NextTofu == TrackAutoFixedHostKeyCallback

SpecTofu == InitTofu /\ [][NextTofu]_vars

----------------------------------------------------------------------------
(* The credential resolver: Auth and its methods *)

\* Options, as far as Auth reads them
AuthOptions ==
    [UseAgent : BOOLEAN, Key : {"", "id_rsa"}, KeyPassphrase : {"", "good", "bad"},
     Password : {"", "pw"}]

\* the environment Auth runs in: SSH_AUTH_SOCK set, the agent answering on
\* it, the private key file (encrypted with the passphrase "good"), and the
\* home directory
Envs ==
    [sock : BOOLEAN, agentUp : BOOLEAN,
     keyfile : {"missing", "garbage", "plain", "encrypted"}, home : BOOLEAN]

\* HasAgent: SSH_AUTH_SOCK is not empty
HasAgent(env) == env.sock

\* Agent: dial the agent's socket
Agent(env) ==
    IF ~HasAgent(env) THEN [auth |-> "none", err |-> Err("no agent")]
    ELSE IF ~env.agentUp THEN [auth |-> "none", err |-> Err("agent dial")]
    ELSE [auth |-> "agent", err |-> NoErr]

\* Password
Password(pass) == "password"

\* GetSigner: read the file, then parse it with or without the passphrase
GetSigner(sshkey, passphrase, env) ==
    IF env.keyfile = "missing" THEN Err("ReadFile")
    ELSE IF passphrase # ""
         THEN IF env.keyfile = "encrypted" /\ passphrase = "good" THEN NoErr
              ELSE Err("ParsePrivateKeyWithPassphrase")
         ELSE IF env.keyfile = "plain" THEN NoErr
              ELSE Err("ParsePrivateKey")

\* Key
Key(sshkey, passphrase, env) ==
    LET err == GetSigner(sshkey, passphrase, env)
    IN IF err # NoErr THEN [auth |-> "none", err |-> err]
       ELSE [auth |-> "key", err |-> NoErr]

\* Auth returning a password method for an empty password
AuthEmptyPassword(opts, env) ==
    IF opts.UseAgent /\ HasAgent(env) /\ Agent(env).err = NoErr
    THEN [auth |-> Agent(env).auth, err |-> NoErr]
    ELSE IF opts.Key # "" /\ Key(opts.Key, opts.KeyPassphrase, env).err = NoErr
    THEN [auth |-> Key(opts.Key, opts.KeyPassphrase, env).auth, err |-> NoErr]
    ELSE [auth |-> Password(opts.Password), err |-> NoErr]

\* Auth failing with the key's error instead of falling through
AuthKeyErrorReturned(opts, env) ==
    IF opts.UseAgent /\ HasAgent(env) /\ Agent(env).err = NoErr
    THEN [auth |-> Agent(env).auth, err |-> NoErr]
    ELSE IF opts.Key # ""
    THEN Key(opts.Key, opts.KeyPassphrase, env)
    ELSE IF opts.Password # ""
    THEN [auth |-> Password(opts.Password), err |-> NoErr]
    ELSE [auth |-> "none", err |-> Err("no auth method")]

\* Auth: the agent, then the key, then the password
Auth(opts, env) ==
    IF opts.UseAgent /\ HasAgent(env) /\ Agent(env).err = NoErr
    THEN [auth |-> Agent(env).auth, err |-> NoErr]
    ELSE IF opts.Key # "" /\ Key(opts.Key, opts.KeyPassphrase, env).err = NoErr
    THEN [auth |-> Key(opts.Key, opts.KeyPassphrase, env).auth, err |-> NoErr]
    ELSE IF opts.Password # ""
    THEN [auth |-> Password(opts.Password), err |-> NoErr]
    ELSE [auth |-> "none", err |-> Err("no auth method")]

----------------------------------------------------------------------------
(* The Client: constructors, WithHostKeyCallback, Dial, Close *)

\* DefaultPort
DefaultPort == 22

\* strconv.Itoa of a port
Itoa(n) == IF n = 22 THEN "22" ELSE IF n = 2222 THEN "2222" ELSE "0"

\* the func literal New installs: it returns nil for every key
AcceptAll == [kind |-> "acceptAll", lines |-> <<>>]
\* ssh.InsecureIgnoreHostKey()
InsecureIgnoreHostKey == [kind |-> "InsecureIgnoreHostKey", lines |-> <<>>]
\* AutoFixedHostKeyCallback as a callback value
AutoFixed == [kind |-> "AutoFixedHostKeyCallback", lines |-> <<>>]
\* the callback knownhosts.New returned over the lines it loaded
KnownHosts(lines) == [kind |-> "knownhosts", lines |-> lines]

\* New: [client, err]
New(opts, env) ==
    LET a == Auth(opts, env)
    IN IF a.err # NoErr THEN [client |-> NoClient, err |-> a.err]
       ELSE [client |-> [made |-> TRUE, auth |-> a.auth, callback |-> AcceptAll,
                         conn |-> 0, addr |-> opts.Addr, port |-> opts.Port,
                         chosenBy |-> "New"],
             err |-> NoErr]

\* WithHostKeyCallback on a client value
WithHostKeyCallback(c, callback, by) ==
    [c EXCEPT !.callback = callback, !.chosenBy = by]

\* NewInsecure: [client, err]
NewInsecure(opts, env) ==
    LET r == New(opts, env)
    IN IF r.err # NoErr THEN [client |-> NoClient, err |-> r.err]
       ELSE [client |-> WithHostKeyCallback(r.client, InsecureIgnoreHostKey, "NewInsecure"),
             err |-> NoErr]

\* NewDefault going on without the known_hosts file
NewDefaultIgnoringLoadError(st, opts, env) ==
    LET cb == DefaultHostKeyCallback(st, env.home)
        r == New(opts, env)
    IN IF r.err # NoErr THEN [client |-> NoClient, err |-> r.err]
       ELSE [client |-> WithHostKeyCallback(r.client, KnownHosts(cb.lines), "NewDefault"),
             err |-> NoErr]

\* NewDefault: [client, err]
NewDefault(st, opts, env) ==
    LET cb == DefaultHostKeyCallback(st, env.home)
    IN IF cb.err # NoErr THEN [client |-> NoClient, err |-> cb.err]
       ELSE LET r == New(opts, env)
            IN IF r.err # NoErr THEN [client |-> NoClient, err |-> r.err]
               ELSE [client |-> WithHostKeyCallback(r.client, KnownHosts(cb.lines),
                                                    "NewDefault"),
                     err |-> NoErr]

\* ssh.NewClientConn on a failed handshake: fmt.Errorf("ssh: handshake
\* failed: %w", err), an error that wraps the handshake's error
HandshakeFailed(e) == [kind |-> "handshake failed", want |-> <<>>, cause |-> e]

\* errors.Unwrap down the chain, as errors.As and errors.Is walk it
Unwrap(e) == IF e.kind = "handshake failed" THEN e.cause ELSE e

\* the HostKeyCallback of the client config, called by the handshake:
\* [err, store]
HostKeyCallback(cb, st, host, remote, key) ==
    IF cb.kind = "knownhosts"
    THEN [err |-> HostKeyDBCheck(cb.lines, host, remote, key), store |-> st]
    ELSE IF cb.kind = "AutoFixedHostKeyCallback"
    THEN AutoFixedHostKeyCallback(st, host, remote, key, TRUE, "ok")
    ELSE [err |-> NoErr, store |-> st]

\* Client.dial leaving the connection open when the server rejects the auth method
dialLeavingOpen(c, st, net, ip, key, authOK) ==
    LET host == Addr(c.addr, Itoa(c.port))
        remote == Addr(ip, Itoa(c.port))
        cb == HostKeyCallback(c.callback, st, host, remote, key)
    IN IF net # "ok" THEN [err |-> Err("dial tcp"), store |-> st, opened |-> FALSE]
       ELSE IF cb.err # NoErr
            THEN [err |-> HandshakeFailed(cb.err), store |-> cb.store, opened |-> FALSE]
       ELSE IF ~authOK
            THEN [err |-> HandshakeFailed(Err("unable to authenticate")),
                  store |-> cb.store, opened |-> TRUE]
       ELSE [err |-> NoErr, store |-> cb.store, opened |-> TRUE]

\* Client.dial: ssh.Dial to JoinHostPort(Addr, Itoa(Port)); the network may
\* fail, then the handshake calls the host-key callback, then the server
\* takes or rejects the auth method; ssh.Dial closes the connection of a
\* failed handshake and wraps its error. [err, store, opened]
dial(c, st, net, ip, key, authOK) ==
    LET host == Addr(c.addr, Itoa(c.port))
        remote == Addr(ip, Itoa(c.port))
        cb == HostKeyCallback(c.callback, st, host, remote, key)
    IN IF net # "ok" THEN [err |-> Err("dial tcp"), store |-> st, opened |-> FALSE]
       ELSE IF cb.err # NoErr
            THEN [err |-> HandshakeFailed(cb.err), store |-> cb.store, opened |-> FALSE]
       ELSE IF ~authOK
            THEN [err |-> HandshakeFailed(Err("unable to authenticate")),
                  store |-> cb.store, opened |-> FALSE]
       ELSE [err |-> NoErr, store |-> cb.store, opened |-> TRUE]

\* the options and environments the Client specification constructs with
ClientOptions ==
    { [UseAgent |-> FALSE, Key |-> "", KeyPassphrase |-> "", Password |-> pw,
       Addr |-> "h1", Port |-> DefaultPort] : pw \in {"", "pw"} }
ClientEnvs ==
    { [sock |-> FALSE, agentUp |-> FALSE, keyfile |-> "missing", home |-> h] :
        h \in BOOLEAN }

ConstructorRecord(op, opts, env, r, before) ==
    [op |-> op, opts |-> opts, env |-> env, err |-> r.err, made |-> r.client.made,
     before |-> before]

\* a caller calls New(opts)
CallNew(opts, env) ==
    /\ ~client.made
    /\ client' = New(opts, env).client
    /\ last' = ConstructorRecord("New", opts, env, New(opts, env), store)
    /\ UNCHANGED <<store, accepted, chans, cmd, sess, routines, files>>

\* a caller calls NewInsecure(opts)
CallNewInsecure(opts, env) ==
    /\ ~client.made
    /\ client' = NewInsecure(opts, env).client
    /\ last' = ConstructorRecord("NewInsecure", opts, env, NewInsecure(opts, env), store)
    /\ UNCHANGED <<store, accepted, chans, cmd, sess, routines, files>>

\* a caller calls NewDefault(opts)
CallNewDefault(opts, env) ==
    /\ ~client.made
    /\ client' = NewDefault(store, opts, env).client
    /\ last' = ConstructorRecord("NewDefault", opts, env, NewDefault(store, opts, env),
                                 store)
    /\ UNCHANGED <<store, accepted, chans, cmd, sess, routines, files>>

\* a caller calls cli.WithHostKeyCallback with one of the package's policies
CallWithHostKeyCallback ==
    /\ client.made
    /\ \E cb \in {InsecureIgnoreHostKey, AutoFixed} \cup
                 (IF DefaultHostKeyCallback(store, TRUE).err = NoErr
                  THEN {KnownHosts(DefaultHostKeyCallback(store, TRUE).lines)}
                  ELSE {}) :
        /\ client' = WithHostKeyCallback(client, cb, "WithHostKeyCallback")
        /\ last' = [op |-> "WithHostKeyCallback", err |-> NoErr]
    /\ UNCHANGED <<store, accepted, chans, cmd, sess, routines, files>>

\* the addresses a host name resolves to
IPs == {"h1", "h2"}

\* Client.Dial: c.Client is set to the new connection when dial succeeds,
\* and is left alone when it fails. [err, client, chans, store]
Dial(c, st, ch, net, ip, key, authOK) ==
    LET r == dial(c, st, net, ip, key, authOK)
    IN [err |-> r.err,
        client |-> IF r.err # NoErr THEN c ELSE [c EXCEPT !.conn = Len(ch) + 1],
        chans |-> IF r.opened THEN Append(ch, "open") ELSE ch,
        store |-> r.store]

\* a Ping that probes the host and keeps no connection
PingWithoutStoring(c, st, ch, net, ip, key, authOK) ==
    [Dial(c, st, ch, net, ip, key, authOK) EXCEPT
        !.client = c,
        !.chans = IF Len(@) > Len(ch) THEN Append(ch, "closed") ELSE ch]

\* Client.Ping: return c.Dial()
Ping(c, st, ch, net, ip, key, authOK) == Dial(c, st, ch, net, ip, key, authOK)

\* the caller's Client after a Dial or a Ping that returned r, recorded as op
DialStep(op, r, net, ip, key, authOK) ==
    /\ net = "fail" => (ip = "h1" /\ key = "K1" /\ authOK)
    /\ Len(r.chans) <= MaxChans
    /\ Len(r.store.lines) <= MaxLines
    /\ store' = r.store
    /\ chans' = r.chans
    /\ client' = r.client
    /\ last' = [op |-> op, net |-> net,
                host |-> Addr(client.addr, Itoa(client.port)),
                remote |-> Addr(ip, Itoa(client.port)), key |-> key,
                authOK |-> authOK, err |-> r.err, before |-> store]
    /\ UNCHANGED <<accepted, cmd, sess, routines, files>>

\* a caller calls cli.Dial()
CallDial ==
    /\ client.made
    /\ \E net \in {"ok", "fail"}, ip \in IPs, key \in Keys, authOK \in BOOLEAN :
        DialStep("Dial", Dial(client, store, chans, net, ip, key, authOK),
                 net, ip, key, authOK)

\* a caller calls cli.Ping()
CallPing ==
    /\ client.made
    /\ \E net \in {"ok", "fail"}, ip \in IPs, key \in Keys, authOK \in BOOLEAN :
        DialStep("Ping", Ping(client, store, chans, net, ip, key, authOK),
                 net, ip, key, authOK)

\* Client.Close: [err, chans, sess, called]; c.Client.Close() is called
\* whenever the pointer is not nil (called); closing the channel closes the
\* sessions minted on it, and closing a closed connection is an error
Close(c, ch, ss) ==
    IF c.conn # 0
    THEN IF ch[c.conn] = "open"
         THEN [err |-> NoErr, chans |-> [ch EXCEPT ![c.conn] = "closed"],
               sess |-> [i \in DOMAIN ss |->
                           IF ss[i].chan = c.conn THEN [ss[i] EXCEPT !.closed = TRUE]
                           ELSE ss[i]],
               called |-> TRUE]
         ELSE [err |-> Err("use of closed network connection"), chans |-> ch, sess |-> ss,
               called |-> TRUE]
    ELSE [err |-> NoErr, chans |-> ch, sess |-> ss, called |-> FALSE]

\* a caller calls cli.Close()
CallClose ==
    /\ client.made
    /\ chans' = Close(client, chans, sess).chans
    /\ sess' = Close(client, chans, sess).sess
    /\ last' = [op |-> "Close", err |-> Close(client, chans, sess).err,
                called |-> Close(client, chans, sess).called,
                was |-> IF client.conn = 0 THEN "nil" ELSE chans[client.conn]]
    /\ UNCHANGED <<store, accepted, client, cmd, routines, files>>

\* someone else appends a host to the known_hosts file the client was built from
CallAppendWhileClient ==
    /\ client.made
    /\ \E key \in Keys :
        LET host == Addr(client.addr, Itoa(client.port))
            r == AppendKnownHost(store, "", host, host, key, TRUE, "ok")
        IN /\ Len(r.store.lines) <= MaxLines
           /\ store' = r.store
           /\ last' = CallRecord("AppendKnownHost", "", host, host, key, TRUE, "ok",
                                 store) @@ [err |-> r.err]
    /\ UNCHANGED <<accepted, client, chans, cmd, sess, routines, files>>

InitClient ==
    /\ store \in InitStores
    /\ last = NoCall
    /\ accepted = {}
    /\ client = NoClient
    /\ chans = <<>>
    /\ cmd = NoCmd
    /\ sess = <<>>
    /\ routines = <<>>
    /\ files = NoFiles

NextClient ==
    \/ \E opts \in ClientOptions, env \in ClientEnvs : CallNew(opts, env)
    \/ \E opts \in ClientOptions, env \in ClientEnvs : CallNewInsecure(opts, env)
    \/ \E opts \in ClientOptions, env \in ClientEnvs : CallNewDefault(opts, env)
    \/ CallWithHostKeyCallback
    \/ CallDial
    \/ CallPing
    \/ CallClose
    \/ CallAppendWhileClient

SpecClient == InitClient /\ [][NextClient]_vars

----------------------------------------------------------------------------
(* The credential resolver and the constructors over every Options and      *)
(* environment: the input is drawn first, then one call is made on it.      *)

\* the address part of Options
AddrOptions == [Addr : {"h1"}, Port : {DefaultPort}]

InitAuth ==
    /\ store \in InitStores
    /\ \E o \in AuthOptions, ao \in AddrOptions, env \in Envs :
         last = [op |-> "input", opts |-> o @@ ao, env |-> env, err |-> NoErr]
    /\ accepted = {}
    /\ client = NoClient
    /\ chans = <<>>
    /\ cmd = NoCmd
    /\ sess = <<>>
    /\ routines = <<>>
    /\ files = NoFiles

\* a caller calls Auth(opts)
CallAuth ==
    /\ last.op = "input"
    /\ last' = [op |-> "Auth", opts |-> last.opts, env |-> last.env,
                auth |-> Auth(last.opts, last.env).auth,
                err |-> Auth(last.opts, last.env).err]
    /\ UNCHANGED <<store, accepted, client, chans, cmd, sess, routines, files>>

NextAuth ==
    \/ CallAuth
    \/ (last.op = "input" /\ CallNew(last.opts, last.env))
    \/ (last.op = "input" /\ CallNewInsecure(last.opts, last.env))
    \/ (last.op = "input" /\ CallNewDefault(last.opts, last.env))

SpecAuth == InitAuth /\ [][NextAuth]_vars

----------------------------------------------------------------------------
(* The remote command: Cmd over one *ssh.Session *)

ErrNilSession == Err("ErrNilSession")

\* c.ctx.Err() of a context that is done
CtxErr == Err("context canceled")

\* what the remote side does with an exec request: run and exit 0, run and
\* exit non-zero, or fail the request
Remotes == {"ok", "exit", "reqfail"}

\* the buffer of bufio.NewReader: defaultBufSize bytes
defaultBufSize == 4096

\* the lines a remote process writes to its standard output: what the line
\* holds and how many bytes it has before its newline
OutLines ==
    {[id |-> "1", len |-> 1], [id |-> "2", len |-> defaultBufSize]}
Outputs == UNION { [1..n -> OutLines] : n \in 0..MaxOut }

\* bufio.Reader.ReadLine called until the line is through: a line that does
\* not fit the buffer with its newline comes in pieces (isPrefix, which
\* OutputPipe drops), the first of defaultBufSize bytes
RECURSIVE ReadLine(_)
ReadLine(line) ==
    IF line.len < defaultBufSize THEN <<line>>
    ELSE <<[line EXCEPT !.len = defaultBufSize]>>
         \o ReadLine([line EXCEPT !.len = line.len - defaultBufSize])

\* what the ReadLine loop of OutputPipe reads from the whole output
RECURSIVE ReadLines(_)
ReadLines(out) ==
    IF out = <<>> THEN <<>> ELSE ReadLine(Head(out)) \o ReadLines(Tail(out))

\* a session as NewSession returns it on a channel
NewSess(ch) == [chan |-> ch, closed |-> FALSE, started |-> FALSE, stdout |-> FALSE]

\* what a call on the session returns: the error, the session afterwards,
\* whether the call waited for the remote exit, and whether bytes came back
SessResult(err, s, waited, output) ==
    [err |-> err, s |-> s, waited |-> waited, output |-> output, signalled |-> FALSE,
     spawned |-> FALSE]

\* ssh.Session.Start: refused once started; the exec request fails on a
\* closed channel or when the server fails it
SessionStart(s, remote) ==
    IF s.started THEN SessResult(Err("session already started"), s, FALSE, "nil")
    ELSE IF s.closed THEN SessResult(Err("EOF"), s, FALSE, "nil")
    ELSE IF remote = "reqfail" THEN SessResult(Err("exec request failed"), s, FALSE, "nil")
    ELSE SessResult(NoErr, [s EXCEPT !.started = TRUE], FALSE, "nil")

\* ssh.Session.Wait: the exit status of a started command
SessionWait(s, remote) ==
    IF ~s.started THEN Err("session not started")
    ELSE IF remote = "exit" THEN Err("ExitError")
    ELSE NoErr

\* ssh.Session.Run: Start, then Wait
SessionRun(s, remote) ==
    LET st == SessionStart(s, remote)
    IN IF st.err # NoErr THEN st
       ELSE SessResult(SessionWait(st.s, remote), st.s, TRUE, "nil")

\* ssh.Session.Output and CombinedOutput: Stdout must not be set yet; the
\* buffer is returned with the error of Run
SessionOutput(s, remote) ==
    IF s.stdout THEN SessResult(Err("Stdout already set"), s, FALSE, "nil")
    ELSE [SessionRun([s EXCEPT !.stdout = TRUE], remote) EXCEPT !.output = "bytes"]

\* ssh.Session.StdoutPipe: Stdout must not be set, the command not started
SessionStdoutPipe(s) ==
    IF s.stdout THEN SessResult(Err("Stdout already set"), s, FALSE, "nil")
    ELSE IF s.started THEN SessResult(Err("StdoutPipe after process started"), s, FALSE, "nil")
    ELSE SessResult(NoErr, [s EXCEPT !.stdout = TRUE], FALSE, "nil")

\* ssh.Session.Close
SessionClose(s) == [s EXCEPT !.closed = TRUE]

\* how one operation of a Cmd with a context is scheduled: when the context
\* becomes done relative to the end of the remote call (never, before it,
\* after it), whether both the context and the result are ready by the time
\* the select is evaluated (late) and which case the select then picks, and
\* whether the spawned call had changed the session when the context won
NoSched == [ctxDone |-> "never", late |-> FALSE, pick |-> "done", ran |-> FALSE]
Schedules(ctx) ==
    LET before == { [ctxDone |-> "before", late |-> FALSE, pick |-> "ctx", ran |-> r] :
                      r \in BOOLEAN }
                  \cup { [ctxDone |-> "before", late |-> TRUE, pick |-> p, ran |-> TRUE] :
                           p \in {"ctx", "done"} }
        after == { [ctxDone |-> "after", late |-> FALSE, pick |-> "done", ran |-> TRUE] }
                 \cup { [ctxDone |-> "after", late |-> TRUE, pick |-> p, ran |-> TRUE] :
                          p \in {"ctx", "done"} }
    IN IF ctx = "none" THEN {NoSched}
       ELSE IF ctx = "done" THEN before
       ELSE {NoSched} \cup before \cup after

\* the case the select of executeWithCtx takes: the one that is ready first
\* while the select waits, either one when both are ready
Select(sched) ==
    IF sched.ctxDone = "never" THEN "done"
    ELSE IF sched.late THEN sched.pick
    ELSE IF sched.ctxDone = "before" THEN "ctx"
    ELSE "done"

\* executeWithCtx returning the context's error without the SIGINT
executeWithCtxNoSignal(c, s, r, sched) ==
    IF Select(sched) = "ctx"
    THEN [err |-> CtxErr, s |-> IF sched.ran THEN r.s ELSE s, waited |-> FALSE,
          output |-> "nil", signalled |-> FALSE, spawned |-> TRUE]
    ELSE [r EXCEPT !.spawned = TRUE]

\* Cmd.executeWithCtx: the callback runs in a goroutine, and the select takes
\* its result or the context; s is the session before the call, r the
\* callback's result
executeWithCtx(c, s, r, sched) ==
    IF Select(sched) = "ctx"
    THEN [err |-> CtxErr, s |-> IF sched.ran THEN r.s ELSE s, waited |-> FALSE,
          output |-> "nil", signalled |-> TRUE, spawned |-> TRUE]
    ELSE [r EXCEPT !.spawned = TRUE]

\* Cmd.execute: the callback is called directly for a Cmd without a context
execute(c, s, r, sched) ==
    IF c.ctx = "none" THEN r ELSE executeWithCtx(c, s, r, sched)

\* what an operation of Cmd returns: the error, the sessions afterwards, the
\* number of calls it made on the session, the lines handed to the handler,
\* whether it waited for the remote exit, whether it sent SIGINT, whether
\* it returned bytes and whether it spawned a goroutine
CmdResult(err, ss, calls, delivered, waited, signalled, output, spawned) ==
    [err |-> err, sess |-> ss, calls |-> calls, delivered |-> delivered,
     waited |-> waited, signalled |-> signalled, output |-> output,
     spawned |-> spawned]

\* an operation that leaves the session open when it returns
DeferredNoClose(c, ss, r, calls, delivered) ==
    CmdResult(r.err, [ss EXCEPT ![c.session] = r.s], calls, delivered,
              r.waited, r.signalled, r.output, r.spawned)

\* the deferred c.session.Close() after the calls on the session
Deferred(c, ss, r, calls, delivered) ==
    CmdResult(r.err, [ss EXCEPT ![c.session] = SessionClose(r.s)],
              calls + (IF r.signalled THEN 1 ELSE 0) + 1, delivered,
              r.waited, r.signalled, r.output, r.spawned)

\* an operation that calls the session before it looks at the pointer
NilSessionAfterCall(ss) ==
    CmdResult(ErrNilSession, ss, 1, <<>>, FALSE, FALSE, "nil", FALSE)

\* the return of an operation on a Cmd without a session
NilSession(ss) == CmdResult(ErrNilSession, ss, 0, <<>>, FALSE, FALSE, "nil", FALSE)

\* the entries a caller passes to Setenv, as strings of characters
EnvEntries ==
    { <<"k">>, <<"k", "=", "v">>, <<"k", "=", "v", "=", "w">>, <<"=", "v">> }
EnvLists == UNION { [1..n -> EnvEntries] : n \in 0..MaxEnv }

\* strings.SplitN(value, "=", -1): a split at every "="
RECURSIVE SplitEvery(_)
SplitEvery(str) ==
    IF str = <<>> THEN << <<>> >>
    ELSE LET rest == SplitEvery(Tail(str))
         IN IF Head(str) = "=" THEN << <<>> >> \o rest
            ELSE << <<Head(str)>> \o Head(rest) >> \o Tail(rest)

\* strings.SplitN(value, "=", 2): the string alone when it holds no "=",
\* else what is before the first "=" and all that is after it
RECURSIVE SplitN(_)
SplitN(str) ==
    IF str = <<>> THEN << <<>> >>
    ELSE IF Head(str) = "=" THEN << <<>>, Tail(str) >>
    ELSE LET rest == SplitN(Tail(str))
         IN << <<Head(str)>> \o rest[1] >> \o Tail(rest)

\* ssh.Session.Setenv: the env request fails on a closed session, and when
\* the server rejects it
SessionSetenv(s, rejected) ==
    IF s.closed THEN Err("EOF")
    ELSE IF rejected THEN Err("setenv failed")
    ELSE NoErr

\* the loop of Setenv from entry i on: the server rejects the request
\* number rejectAt (0: none); [err, installed, calls]
RECURSIVE SetenvFrom(_, _, _, _, _, _)
SetenvFrom(s, env, i, rejectAt, installed, calls) ==
    IF i > Len(env) THEN [err |-> NoErr, installed |-> installed, calls |-> calls]
    ELSE LET kv == SplitN(env[i])
         IN IF Len(kv) < 2 THEN SetenvFrom(s, env, i + 1, rejectAt, installed, calls)
            ELSE LET err == SessionSetenv(s, calls + 1 = rejectAt)
                 IN IF err # NoErr
                    THEN [err |-> err, installed |-> installed, calls |-> calls + 1]
                    ELSE SetenvFrom(s, env, i + 1, rejectAt,
                                    Append(installed, <<kv[1], kv[2]>>), calls + 1)

\* Cmd.Setenv: [err, installed, calls]
Setenv(c, ss, env, rejectAt) ==
    IF c.session = 0 THEN [err |-> ErrNilSession, installed |-> <<>>, calls |-> 0]
    ELSE SetenvFrom(ss[c.session], env, 1, rejectAt, <<>>, 0)

\* Cmd.SetSession: the Cmd holds the session given, which may be nil
SetSession(c, session) == [c EXCEPT !.session = session, !.used = FALSE]

\* Cmd.Run
Run(c, ss, remote, sched) ==
    IF c.session = 0 THEN NilSession(ss)
    ELSE LET r == execute(c, ss[c.session], SessionRun(ss[c.session], remote), sched)
         IN Deferred(c, ss, [r EXCEPT !.output = "nil"], 1, <<>>)

\* Cmd.Output
Output(c, ss, remote, sched) ==
    IF c.session = 0 THEN NilSession(ss)
    ELSE LET r == execute(c, ss[c.session], SessionOutput(ss[c.session], remote), sched)
         IN Deferred(c, ss, r, 1, <<>>)

\* Cmd.CombinedOutput
CombinedOutput(c, ss, remote, sched) ==
    IF c.session = 0 THEN NilSession(ss)
    ELSE LET r == execute(c, ss[c.session], SessionOutput(ss[c.session], remote), sched)
         IN Deferred(c, ss, r, 1, <<>>)

\* Cmd.Start: the context is not looked at
Start(c, ss, remote) ==
    IF c.session = 0 THEN NilSession(ss)
    ELSE Deferred(c, ss, SessionStart(ss[c.session], remote), 1, <<>>)

\* Cmd.OutputPipe going on to the next line and to Wait after the handler's error
OutputPipeWaitingAfterError(c, ss, remote, out, failAt) ==
    IF c.session = 0 THEN NilSession(ss)
    ELSE LET pipe == SessionStdoutPipe(ss[c.session])
             st == SessionStart(pipe.s, remote)
         IN IF pipe.err # NoErr THEN Deferred(c, ss, pipe, 1, <<>>)
            ELSE IF st.err # NoErr THEN Deferred(c, ss, st, 2, <<>>)
            ELSE Deferred(c, ss, SessResult(SessionWait(st.s, remote), st.s, TRUE, "nil"),
                          3, ReadLines(out))

\* Cmd.OutputPipe(fn): the handler fn returns an error on its call number
\* failAt (0: on no call); the context is not looked at
OutputPipe(c, ss, remote, out, failAt) ==
    IF c.session = 0 THEN NilSession(ss)
    ELSE LET pipe == SessionStdoutPipe(ss[c.session])
             st == SessionStart(pipe.s, remote)
         IN IF pipe.err # NoErr THEN Deferred(c, ss, pipe, 1, <<>>)
            ELSE IF st.err # NoErr THEN Deferred(c, ss, st, 2, <<>>)
            ELSE IF failAt # 0
                 THEN Deferred(c, ss, SessResult(Err("handler"), st.s, FALSE, "nil"), 2,
                               SubSeq(ReadLines(out), 1, failAt))
                 ELSE Deferred(c, ss,
                               SessResult(SessionWait(st.s, remote), st.s, TRUE, "nil"),
                               3, ReadLines(out))

\* newCommand
newCommand(session) == [made |-> TRUE, session |-> session, ctx |-> "none", used |-> FALSE]

\* newCommandContext: ctx is a context that is live or already done
newCommandContext(ctx, session) == [newCommand(session) EXCEPT !.ctx = ctx]

\* c.NewSession() on the embedded *ssh.Client (a nil pointer before Dial):
\* the error, or none when the server opens the channel
NewSession(c, ch, open) ==
    IF c.conn = 0 THEN Err("nil pointer dereference")
    ELSE IF ch[c.conn] # "open" \/ ~open THEN Err("NewSession")
    ELSE NoErr

\* a caller calls cli.Command(name, args...): NewSession, then newCommand
CallCommand ==
    /\ client.made
    /\ \E open \in BOOLEAN :
        IF NewSession(client, chans, open) # NoErr
        THEN /\ last' = [op |-> "Command", err |-> NewSession(client, chans, open)]
             /\ UNCHANGED <<cmd, sess>>
        ELSE /\ Len(sess) < MaxSessions
             /\ sess' = Append(sess, NewSess(client.conn))
             /\ cmd' = newCommand(Len(sess) + 1)
             /\ last' = [op |-> "Command", err |-> NoErr]
    /\ UNCHANGED <<store, accepted, client, chans, routines, files>>

\* a caller calls cli.CommandContext(ctx, name, args...)
CallCommandContext ==
    /\ client.made
    /\ \E open \in BOOLEAN, ctx \in {"live", "done"} :
        IF NewSession(client, chans, open) # NoErr
        THEN /\ ctx = "live"
             /\ last' = [op |-> "CommandContext", err |-> NewSession(client, chans, open)]
             /\ UNCHANGED <<cmd, sess>>
        ELSE /\ Len(sess) < MaxSessions
             /\ sess' = Append(sess, NewSess(client.conn))
             /\ cmd' = newCommandContext(ctx, Len(sess) + 1)
             /\ last' = [op |-> "CommandContext", err |-> NoErr]
    /\ UNCHANGED <<store, accepted, client, chans, routines, files>>

\* a caller calls cli.CombinedOutput(command): NewSession, the session's
\* CombinedOutput, and the deferred session.Close()
CallClientCombinedOutput ==
    /\ client.made
    /\ \E open \in BOOLEAN, remote \in Remotes :
        IF NewSession(client, chans, open) # NoErr
        THEN /\ remote = "ok"
             /\ last' = [op |-> "Client.CombinedOutput", session |-> 0,
                         err |-> NewSession(client, chans, open)]
             /\ UNCHANGED sess
        ELSE LET r == SessionOutput(NewSess(client.conn), remote)
             IN /\ Len(sess) < MaxSessions
                /\ sess' = Append(sess, SessionClose(r.s))
                /\ last' = [op |-> "Client.CombinedOutput", session |-> Len(sess) + 1,
                            err |-> r.err]
    /\ UNCHANGED <<store, accepted, client, chans, cmd, routines, files>>

\* the caller's Cmd after an operation that returned r, recorded as op with
\* the inputs of the call; a context that became done stays done
CmdStep(op, r, sched, inputs) ==
    /\ sess' = r.sess
    /\ cmd' = [cmd EXCEPT !.used = TRUE,
                          !.ctx = IF @ # "none" /\ sched.ctxDone # "never" THEN "done"
                                  ELSE @]
    /\ last' = [op |-> op, err |-> r.err, calls |-> r.calls,
                delivered |-> r.delivered, waited |-> r.waited,
                signalled |-> r.signalled, output |-> r.output,
                spawned |-> r.spawned,
                reused |-> cmd.used, session |-> cmd.session, ctx |-> cmd.ctx,
                startedBefore |-> cmd.session # 0 /\ sess[cmd.session].started,
                sched |-> sched] @@ inputs
    /\ UNCHANGED <<store, accepted, client, chans, routines, files>>

\* the result of the remote call itself, had nothing raced it
Remote(r) == [remoteErr |-> r.err]

\* a call reaches the remote side when the Cmd has a session that is open
\* and has no command started: only then the remote's answer is an input
Reaches(c, ss) ==
    /\ c.session # 0
    /\ ~ss[c.session].started
    /\ ~ss[c.session].closed

\* the inputs of a call: the remote's answer where the call reaches it, and
\* no schedule of a goroutine for a Cmd without a session
Inputs(remote, sched) ==
    /\ ~Reaches(cmd, sess) => remote = "ok"
    /\ cmd.session = 0 => (~sched.late /\ ~sched.ran /\ sched.ctxDone # "after")

\* a caller calls cmd.Run()
CallRun ==
    cmd.made /\ \E remote \in Remotes, sched \in Schedules(cmd.ctx) :
        Inputs(remote, sched) /\
        CmdStep("Run", Run(cmd, sess, remote, sched), sched,
                Remote(Run(cmd, sess, remote, NoSched)))

\* a caller calls cmd.Output()
CallOutput ==
    cmd.made /\ \E remote \in Remotes, sched \in Schedules(cmd.ctx) :
        Inputs(remote, sched) /\
        CmdStep("Output", Output(cmd, sess, remote, sched), sched,
                Remote(Output(cmd, sess, remote, NoSched)))

\* a caller calls cmd.CombinedOutput()
CallCombinedOutput ==
    cmd.made /\ \E remote \in Remotes, sched \in Schedules(cmd.ctx) :
        Inputs(remote, sched) /\
        CmdStep("CombinedOutput", CombinedOutput(cmd, sess, remote, sched), sched,
                Remote(CombinedOutput(cmd, sess, remote, NoSched)))

\* a caller calls cmd.Start()
CallStart ==
    cmd.made /\ \E remote \in Remotes, sched \in Schedules(cmd.ctx) :
        /\ ~sched.late
        /\ sched.ran = (sched.ctxDone # "never")
        /\ sched.ctxDone # "after"
        /\ CmdStep("Start", Start(cmd, sess, remote), sched,
                   Remote(Start(cmd, sess, remote)))

\* the pipe is set and the command started: the ReadLine loop is reached
Streaming(c, ss, remote) ==
    /\ c.session # 0
    /\ SessionStdoutPipe(ss[c.session]).err = NoErr
    /\ SessionStart(SessionStdoutPipe(ss[c.session]).s, remote).err = NoErr

\* a caller calls cmd.OutputPipe(fn)
CallOutputPipe ==
    cmd.made /\ \E remote \in Remotes, out \in Outputs, sched \in Schedules(cmd.ctx) :
        \E failAt \in 0..Len(ReadLines(out)) :
            /\ ~sched.late
            /\ sched.ran = (sched.ctxDone # "never")
            /\ sched.ctxDone # "after"
            /\ (cmd.session # 0 /\ ~Streaming(cmd, sess, remote))
                 => (out = <<>> /\ failAt = 0)
            /\ cmd.session = 0 => (failAt = 0 /\ remote = "ok")
            /\ CmdStep("OutputPipe", OutputPipe(cmd, sess, remote, out, failAt), sched,
                       [out |-> out, failAt |-> failAt,
                        streaming |-> Streaming(cmd, sess, remote),
                        remoteErr |-> OutputPipe(cmd, sess, remote, out, 0).err])

\* a caller calls cmd.SetSession(nil)
CallSetSession ==
    /\ cmd.made
    /\ \E session \in {0} :
        /\ cmd' = SetSession(cmd, session)
        /\ last' = [op |-> "SetSession", err |-> NoErr, session |-> session]
    /\ UNCHANGED <<store, accepted, client, chans, sess, routines, files>>

\* the entries of env that hold a "=", which are those Setenv sends
Sent(env) == SelectSeq(env, LAMBDA e : \E i \in 1..Len(e) : e[i] = "=")

\* a caller calls cmd.Setenv(env)
CallSetenv ==
    /\ cmd.made
    /\ \E env \in EnvLists :
        \E rejectAt \in 0..Len(Sent(env)) :
            LET r == Setenv(cmd, sess, env, rejectAt)
            IN /\ cmd.session = 0 => rejectAt = 0
               /\ last' = [op |-> "Setenv", err |-> r.err, calls |-> r.calls,
                           installed |-> r.installed, env |-> env,
                           rejectAt |-> rejectAt, delivered |-> <<>>,
                           spawned |-> FALSE, session |-> cmd.session,
                           ctx |-> cmd.ctx]
    /\ UNCHANGED <<store, accepted, client, chans, cmd, sess, routines, files>>

\* a Client that was constructed and dialled
Connected ==
    [made |-> TRUE, auth |-> "password", callback |-> InsecureIgnoreHostKey,
     conn |-> 1, addr |-> "h1", port |-> DefaultPort, chosenBy |-> "NewInsecure"]

InitCmd ==
    /\ store = [status |-> "ok", lines |-> <<>>]
    /\ last = NoCall
    /\ accepted = {}
    /\ client = Connected
    /\ chans = <<"open">>
    /\ cmd = NoCmd
    /\ sess = <<>>
    /\ routines = <<>>
    /\ files = NoFiles

NextCmd ==
    \/ CallCommand
    \/ CallCommandContext
    \/ CallClientCombinedOutput
    \/ CallRun
    \/ CallOutput
    \/ CallCombinedOutput
    \/ CallStart
    \/ CallOutputPipe
    \/ CallSetSession
    \/ CallClose

SpecCmd == InitCmd /\ [][NextCmd]_vars

\* the environment of a command: Setenv on the sessions of Cmds that are
\* fresh or closed with the connection
NextEnv ==
    \/ CallCommand
    \/ CallSetenv
    \/ CallClose

SpecEnv == InitCmd /\ [][NextEnv]_vars

----------------------------------------------------------------------------
(* What the claims speak of, read off the file itself *)

\* the file can be read by a call on fpath in this environment
Loadable(st, fpath, home) == st.status = "ok" /\ (fpath # "" \/ home)

\* the keys the file records for an address, in its normalized form
StoredKeys(st, a) ==
    { st.lines[i].key : i \in { j \in 1..Len(st.lines) :
        /\ st.lines[j].marker = ""
        /\ \E n \in 1..Len(st.lines[j].hosts) : st.lines[j].hosts[n] = Normalize(a) } }

\* the address is in the file, and only with keys other than the presented one
OnlyOtherKeys(st, a, key) == StoredKeys(st, a) # {} /\ key \notin StoredKeys(st, a)

\* the address a lookup is about: the alias, or the remote for an empty alias
LookupAddr(host, remote) == IF host # EmptyAddr THEN host ELSE remote

SeqRange(q) == { q[i] : i \in 1..Len(q) }

IsAutoFixed == last.op = "AutoFixedHostKeyCallback"

----------------------------------------------------------------------------
(* Claims on the trust store *)

\* C2: AutoFixedHostKeyCallback never accepts a host whose alias or remote
\* address is in the (loadable) known-hosts file with only keys different
\* from the presented one: it returns the key-mismatch error and leaves the
\* file unchanged. Stated for the aliases a handshake passes (host:port).
C2_MismatchNeverAccepted ==
    ( /\ IsAutoFixed
      /\ Loadable(last.before, "", last.home)
      /\ ~SplitFails(last.host)
      /\ \/ OnlyOtherKeys(last.before, last.host, last.key)
         \/ OnlyOtherKeys(last.before, last.remote, last.key) )
    => (last.err.kind = "KeyError" /\ store = last.before)

\* C3: when VerifyKnownHost does not find the host, AutoFixedHostKeyCallback
\* appends exactly one record, holding the normalized remote address and,
\* only if it normalizes differently, the normalized alias, and accepts; if
\* the append fails it returns that error, and nothing is accepted or
\* written.
C3_NotFoundAppendsOneRecord ==
    ( /\ IsAutoFixed
      /\ ~VerifyKnownHost(last.before, "", last.host, last.remote, last.key,
                          last.home).found )
    => IF last.home /\ last.io = "ok"
       THEN /\ last.err = NoErr
            /\ Len(store.lines) = Len(last.before.lines) + 1
            /\ SubSeq(store.lines, 1, Len(last.before.lines)) = last.before.lines
            /\ store.lines[Len(store.lines)] =
                 [marker |-> "",
                  hosts |-> IF Normalize(last.host) = Normalize(last.remote)
                            THEN <<Normalize(last.remote)>>
                            ELSE <<Normalize(last.remote), Normalize(last.host)>>,
                  key |-> last.key]
       ELSE /\ last.err # NoErr
            /\ last.err.kind \in {"HomeDir", "Open"}
            /\ store = last.before

\* C3 witness: an unknown host was appended with both of its forms and accepted
C3_Witness ==
    /\ IsAutoFixed
    /\ ~VerifyKnownHost(last.before, "", last.host, last.remote, last.key,
                        last.home).found
    /\ last.err = NoErr
    /\ Len(store.lines) = Len(last.before.lines) + 1
    /\ Len(store.lines[Len(store.lines)].hosts) = 2

\* C4: once a call for alias A with key K has been accepted, every later call
\* for A with K is accepted without writing to the file, and every later
\* call for A with another key is rejected with the key-mismatch error.
\* Stated for the aliases a handshake passes (host:port).
C4_AcceptedKeyStaysPinned ==
    [][ \A p \in accepted :
          ( /\ last'.op = "AutoFixedHostKeyCallback"
            /\ last'.host = p[1]
            /\ ~SplitFails(p[1]) )
          => /\ (last'.key = p[2] => (last'.err = NoErr /\ store' = store))
             /\ (last'.key # p[2] => last'.err.kind = "KeyError") ]_vars

\* C5: on a loadable file VerifyKnownHost returns (true, nil) for an alias
\* stored with the presented key, (true, key mismatch carrying the wanted
\* keys) for an alias stored only with other keys, and (false, nil) for an
\* alias that is not stored; a mismatch is never (false, nil). Stated for
\* an alias of the form host:port, or an empty one.
C5_VerifyThreeOutcomes ==
    ( /\ last.op = "VerifyKnownHost"
      /\ (last.host = EmptyAddr \/ ~SplitFails(last.host))
      /\ Loadable(last.before, last.fpath, last.home) )
    => LET ks == StoredKeys(last.before, LookupAddr(last.host, last.remote))
       IN /\ last.key \in ks => (last.found /\ last.err = NoErr)
          /\ (ks # {} /\ last.key \notin ks)
               => (last.found /\ last.err.kind = "KeyError"
                   /\ SeqRange(last.err.want) = ks)
          /\ ks = {} => (~last.found /\ last.err = NoErr)

\* C6: a successful AppendKnownHost followed at once by VerifyKnownHost with
\* the same arguments returns (true, nil) (stated for a file that loads).
C6_AppendVerifyRoundTrip ==
    ( /\ last.op = "AppendKnownHost"
      /\ last.err = NoErr
      /\ Loadable(store, last.fpath, last.home) )
    => VerifyKnownHost(store, last.fpath, last.host, last.remote, last.key,
                       last.home) = [found |-> TRUE, err |-> NoErr]

----------------------------------------------------------------------------
(* Claims on the Client's host-key policy *)

\* the file records the key for the address
Trusted(st, a, key) == st.status = "ok" /\ key \in StoredKeys(st, a)

\* C7: Dial accepts a host key that mismatches, or is absent from, the trust
\* store only if the caller selected the policy: a mismatching key only under
\* the accept-all policy chosen through NewInsecure or WithHostKeyCallback,
\* and never on a Client built with New alone.
C7_UntrustedKeyOnlyByChoice ==
    ( /\ last.op = "Dial"
      /\ last.err = NoErr
      /\ ~Trusted(last.before, last.host, last.key) )
    => /\ client.chosenBy \in {"NewInsecure", "NewDefault", "WithHostKeyCallback"}
       /\ ( (last.before.status = "ok"
             /\ OnlyOtherKeys(last.before, last.host, last.key)
             /\ ~IsRevoked(last.before.lines, last.key))
            => client.callback = InsecureIgnoreHostKey )

\* the Client holds the strict policy NewDefault gave it
IsStrict == client.made /\ client.chosenBy = "NewDefault"

\* the known_hosts lines the strict Client holds, as a file
Snapshot == [status |-> "ok", lines |-> client.callback.lines]

\* C8: a Client made by NewDefault holds the known_hosts lines as loaded at
\* construction; its Dial succeeds only if the presented key is in a record
\* of those lines for the host, and the handshake fails with the
\* unknown-host error (no wanted keys) or the mismatch error (the wanted
\* keys) otherwise; NewDefault returns an error and no Client when the file
\* cannot be loaded.
C8_NewDefaultIsStrict ==
    /\ (last.op = "NewDefault" /\ ~Loadable(last.before, "", last.env.home))
         => (last.err # NoErr /\ ~last.made /\ ~client.made)
    /\ (last.op = "NewDefault" /\ last.made)
         => (client.callback = KnownHosts(last.before.lines) /\ store = last.before)
    /\ (IsStrict /\ last.op = "Dial")
         => /\ last.err = NoErr => Trusted(Snapshot, last.host, last.key)
            /\ (last.net = "ok" /\ ~IsRevoked(Snapshot.lines, last.key))
                 => /\ StoredKeys(Snapshot, last.host) = {}
                         => Unwrap(last.err) = KeyError(<<>>)
                    /\ OnlyOtherKeys(Snapshot, last.host, last.key)
                         => /\ Unwrap(last.err).kind = "KeyError"
                            /\ SeqRange(Unwrap(last.err).want) =
                                 StoredKeys(Snapshot, last.host)

\* C8 witness: a strict Client dialled with success on lines that are no
\* longer those of the file
C8_Witness ==
    /\ IsStrict
    /\ last.op = "Dial"
    /\ last.err = NoErr
    /\ client.callback.lines # store.lines

----------------------------------------------------------------------------
(* Claims on the credential resolver *)

\* no agent is usable, no key and no password are configured
NoMethodConfigured(opts, env) ==
    /\ (~opts.UseAgent \/ ~env.sock)
    /\ opts.Key = ""
    /\ opts.Password = ""

\* C9: with no usable agent, an empty Key and an empty Password, Auth returns
\* the 'no auth method' error and no method, and New, NewInsecure and
\* NewDefault return an error and no Client.
C9_NoMethodNoClient ==
    /\ (last.op = "Auth" /\ NoMethodConfigured(last.opts, last.env))
         => (last.err = Err("no auth method") /\ last.auth = "none")
    /\ (last.op \in {"New", "NewInsecure", "NewDefault"}
        /\ NoMethodConfigured(last.opts, last.env))
         => (last.err # NoErr /\ ~last.made /\ ~client.made)

\* C9 witness: a constructor was refused although an agent socket is set
C9_Witness ==
    /\ last.op = "NewInsecure"
    /\ NoMethodConfigured(last.opts, last.env)
    /\ last.env.sock
    /\ last.err = Err("no auth method")

\* the agent answers, and the key file parses under the passphrase
AgentPrepares(opts, env) == opts.UseAgent /\ env.sock /\ env.agentUp
KeyPrepares(opts, env) ==
    /\ opts.Key # ""
    /\ \/ (env.keyfile = "plain" /\ opts.KeyPassphrase = "")
       \/ (env.keyfile = "encrypted" /\ opts.KeyPassphrase = "good")

\* C10: Auth returns one method in the priority agent, private key,
\* password: the first that is configured and prepares; a private key that
\* fails to read or parse falls through to the password, and to the 'no auth
\* method' error when there is no password.
C10_AuthPriority ==
    last.op = "Auth"
    => /\ last.auth = IF AgentPrepares(last.opts, last.env) THEN "agent"
                      ELSE IF KeyPrepares(last.opts, last.env) THEN "key"
                      ELSE IF last.opts.Password # "" THEN "password"
                      ELSE "none"
       /\ last.auth # "none" => last.err = NoErr
       /\ last.auth = "none" => last.err = Err("no auth method")

\* C10 witness: the key was configured and failed, and the password was returned
C10_Witness ==
    /\ last.op = "Auth"
    /\ last.opts.Key # ""
    /\ ~KeyPrepares(last.opts, last.env)
    /\ ~AgentPrepares(last.opts, last.env)
    /\ last.auth = "password"

----------------------------------------------------------------------------
(* Claims on the remote command *)

ConsumingOps == {"Run", "Output", "CombinedOutput", "Start", "OutputPipe"}

\* C1: after one session-consuming operation of a Cmd has returned, any
\* second one on the same Cmd returns ErrNilSession and makes no call on the
\* session.
C1_SecondCallNilSession ==
    (last.op \in ConsumingOps /\ last.reused)
    => (last.err = ErrNilSession /\ last.calls = 0)

----------------------------------------------------------------------------
(* More claims on the credential resolver *)

\* C11: when agent use is requested and SSH_AUTH_SOCK is set, Auth does not
\* go on to the private key or the password: it returns the agent method,
\* or no method when the agent attempt fails.
C11_AgentFailureNoFallThrough ==
    (last.op = "Auth" /\ last.opts.UseAgent /\ HasAgent(last.env))
    => last.auth \in {"agent", "none"}

----------------------------------------------------------------------------
(* Claims on the Client's connection *)

\* C12: Close on a Client whose connection is already closed returns nil and
\* makes no call on the connection; Close on a Client that was never dialled
\* returns nil.
C12_CloseIdempotent ==
    last.op = "Close"
    => /\ last.was = "closed" => (last.err = NoErr /\ ~last.called)
       /\ last.was = "nil" => last.err = NoErr

\* the Client holds a connection that is open
Live(c, ch) == c.conn # 0 /\ ch[c.conn] = "open"
\* the Client holds a connection that Close has closed
Closed(c, ch) == c.conn # 0 /\ ch[c.conn] = "closed"

\* C13: Closed is terminal: no step takes a Client whose connection has been
\* closed to a Client with a live connection.
C13_ClosedIsTerminal ==
    [][ Closed(client, chans) => ~Live(client', chans') ]_vars

\* the connections the Client opened and nobody closed
OpenChans == { i \in 1..Len(chans) : chans[i] = "open" }

\* C14: the connections a Client opened and has not closed are never more
\* than one.
C14_AtMostOneOpenChannel == Cardinality(OpenChans) <= 1

\* C15: a Dial that fails returns the error of the failure (in its chain the
\* error of the host-key callback, when the callback rejected), leaves no
\* connection open that it opened, and leaves the Client as it was.
C15_FailedDialLeavesNothing ==
    [][ (last'.op = "Dial" /\ last'.err # NoErr)
        => /\ client' = client
           /\ chans' = chans
           /\ last'.net # "ok" => last'.err = Err("dial tcp")
           /\ LET cb == HostKeyCallback(client.callback, store, last'.host,
                                         last'.remote, last'.key)
              IN (last'.net = "ok" /\ cb.err # NoErr) => Unwrap(last'.err) = cb.err ]_vars

\* C15 witness: a connected Client dialled again, the host-key callback
\* rejected the key, and the Client still holds its open connection
C15_Witness ==
    /\ last.op = "Dial"
    /\ Unwrap(last.err).kind = "KeyError"
    /\ Live(client, chans)

----------------------------------------------------------------------------
(* Claims on the remote command with a context, and on OutputPipe *)

\* the last call was an operation op of a Cmd made with a context, on a session
WithContext(ops) == last.op \in ops /\ last.ctx # "none" /\ last.session # 0

CtxOutcome ==
    last.err = CtxErr /\ last.output = "nil" /\ last.signalled /\ ~last.waited
\* the operation returned what the remote call returned, and sent no SIGINT
RemoteOutcome == last.err = last.remoteErr /\ ~last.signalled

C17_EveryOperationHonoursContext ==
    (WithContext(ConsumingOps) /\ last.sched.ctxDone = "before" /\ ~last.sched.late)
    => last.err = CtxErr

\* C18: when the handler returns no error, OutputPipe calls it once for each
\* line of the remote standard output, in the order written and before it
\* returns, and returns what waiting for the remote exit returns.
C18_OneHandlerCallPerLine ==
    (last.op = "OutputPipe" /\ last.streaming /\ last.failAt = 0)
    => /\ last.delivered = last.out
       /\ last.waited
       /\ last.err = last.remoteErr

\* C19: when the handler returns an error on one of its calls, OutputPipe
\* returns that error, has called the handler for nothing after it, has not
\* waited for the remote exit, and has closed the session.
C19_HandlerErrorStopsPipe ==
    (last.op = "OutputPipe" /\ last.streaming /\ last.failAt # 0)
    => /\ last.err = Err("handler")
       /\ last.delivered = SubSeq(ReadLines(last.out), 1, last.failAt)
       /\ ~last.waited
       /\ last.calls = 3
       /\ sess[last.session].closed

\* C19 witness: the handler failed on the first of several lines
C19_Witness ==
    /\ last.op = "OutputPipe"
    /\ last.streaming
    /\ last.failAt = 1
    /\ Len(ReadLines(last.out)) > 1
    /\ last.err = Err("handler")
    /\ Len(last.delivered) = 1

\* C20: every session-consuming operation of a Cmd with a session has closed
\* the session when it returns, whatever the exit path; so has
\* Client.CombinedOutput with the session it opened.
C20_SessionClosedOnEveryPath ==
    ((last.op \in ConsumingOps \/ last.op = "Client.CombinedOutput") /\ last.session # 0)
    => sess[last.session].closed

\* C20 witness: the context won over the remote call and the session is closed
C20_Witness ==
    /\ WithContext({"Run"})
    /\ last.err = CtxErr
    /\ last.signalled
    /\ sess[last.session].closed

----------------------------------------------------------------------------
(* More claims on the trust store *)

\* C28: AutoFixedHostKeyCallback never accepts a key that a loadable
\* known-hosts file marks as revoked: it returns an error and leaves the
\* file as it was. Stated for the aliases a handshake passes (host:port).
C28_RevokedKeyNeverAccepted ==
    ( /\ IsAutoFixed
      /\ Loadable(last.before, "", last.home)
      /\ ~SplitFails(last.host)
      /\ IsRevoked(last.before.lines, last.key) )
    => (last.err # NoErr /\ store = last.before)

\* C29: when the known-hosts file exists and cannot be loaded, so that
\* VerifyKnownHost returns (false, err) with an error,
\* AutoFixedHostKeyCallback returns that error and appends nothing.
C29_UnloadableFileRejects ==
    ( /\ IsAutoFixed
      /\ last.before.status = "corrupt"
      /\ VerifyKnownHost(last.before, "", last.host, last.remote, last.key,
                         last.home).err # NoErr )
    => /\ last.err = VerifyKnownHost(last.before, "", last.host, last.remote, last.key,
                                     last.home).err
       /\ store = last.before

----------------------------------------------------------------------------
(* More claims on the Client's connection *)

\* C24: Ping is Dial: in every state of the Client and for every outcome of
\* the dial, Ping returns the error Dial returns and leaves the Client, its
\* connections and the known-hosts file as Dial leaves them.
C24_PingIsDial ==
    [][ last'.op = "Ping"
        => LET d == Dial(client, store, chans, last'.net, last'.remote.host,
                         last'.key, last'.authOK)
           IN /\ last'.err = d.err
              /\ client' = d.client
              /\ chans' = d.chans
              /\ store' = d.store ]_vars

\* C24 witness: a Ping on a Connected Client succeeded and the Client holds
\* the new connection
C24_Witness ==
    /\ last.op = "Ping"
    /\ last.err = NoErr
    /\ client.conn = Len(chans)
    /\ Len(chans) > 1
    /\ Live(client, chans)

----------------------------------------------------------------------------
(* More claims on the remote command *)

\* C30: when the context of a Cmd is already done as Run, Output or
\* CombinedOutput is called on its unused session, no command is started on
\* the session and the operation returns the context's error.
C30_DoneContextStartsNothing ==
    ( /\ WithContext({"Run", "Output", "CombinedOutput"})
      /\ last.ctx = "done"
      /\ ~last.startedBefore )
    => /\ last.err = CtxErr
       /\ ~sess[last.session].started

\* C22: on a Cmd without a session Run, Output, CombinedOutput, Start,
\* OutputPipe and Setenv return ErrNilSession, call nothing on a session,
\* spawn no goroutine and never call the line handler, and leave every
\* session as it was.
C22_NilSessionFailsAtOnce ==
    /\ (last.op \in ConsumingOps /\ last.session = 0)
         => /\ last.err = ErrNilSession
            /\ last.calls = 0
            /\ ~last.spawned
            /\ ~last.signalled
            /\ last.delivered = <<>>
    /\ (cmd.made /\ cmd.session = 0)
         => \A env \in EnvLists :
              Setenv(cmd, sess, env, 0) =
                [err |-> ErrNilSession, installed |-> <<>>, calls |-> 0]

\* C22 witness: OutputPipe on a Cmd with a context and no session, for a
\* remote output of several lines
C22_Witness ==
    /\ last.op = "OutputPipe"
    /\ last.session = 0
    /\ last.ctx # "none"
    /\ Len(last.out) > 1
    /\ last.err = ErrNilSession

\* the place of the first "=" of an entry that holds one
FirstEq(e) == CHOOSE i \in 1..Len(e) : e[i] = "=" /\ \A j \in 1..(i - 1) : e[j] # "="

\* the (key, value) pairs of the entries that hold a "=", in list order:
\* what is before the first "=" and what is after it
Pairs(env) ==
    [n \in 1..Len(Sent(env)) |->
        LET e == Sent(env)[n]
        IN << SubSeq(e, 1, FirstEq(e) - 1), SubSeq(e, FirstEq(e) + 1, Len(e)) >>]

\* C23: Setenv on a Cmd with a session goes through the entries in list
\* order: an entry without "=" is skipped, an entry with "=" is installed as
\* (key, value) split at its first "="; at the first request the transport
\* rejects Setenv returns that error and nothing later is installed; the
\* command is not executed and the session not closed.
C23_SetenvInOrder ==
    [][ (last'.op = "Setenv" /\ last'.session # 0)
        => /\ sess' = sess
           /\ cmd' = cmd
           /\ LET s == sess[last'.session]
                  stopAt == IF s.closed /\ Pairs(last'.env) # <<>> THEN 1
                            ELSE last'.rejectAt
              IN IF stopAt = 0
                 THEN /\ last'.err = NoErr
                      /\ last'.installed = Pairs(last'.env)
                 ELSE /\ last'.err # NoErr
                      /\ last'.err = SessionSetenv(s, TRUE)
                      /\ last'.installed = SubSeq(Pairs(last'.env), 1, stopAt - 1) ]_vars

\* C23 witness: an entry with two "=" was installed, split at the first, and
\* the entry after it was rejected
C23_Witness ==
    /\ last.op = "Setenv"
    /\ last.env = << <<"k", "=", "v", "=", "w">>, <<"=", "v">> >>
    /\ last.rejectAt = 2
    /\ last.installed = << << <<"k">>, <<"v", "=", "w">> >> >>
    /\ last.err = Err("setenv failed")

----------------------------------------------------------------------------
(* Calls on one Cmd step by step: several callers, and the goroutine of    *)
(* executeWithCtx with its unbuffered channel done                         *)

MaxCallers == 2
Callers == 1..MaxCallers

\* a caller that has not called yet. pc: where the caller is in the
\* operation; reached: the calls made on the session for it; g: the
\* goroutine executeWithCtx spawned for it; res: what the goroutine has to
\* send; with: the callers in flight when it called
Idle ==
    [pc |-> "idle", op |-> "none", err |-> NoErr, reached |-> 0, g |-> "none",
     res |-> NoErr, byCtx |-> FALSE, with |-> {}]

\* the caller is inside the operation
InFlight(p) == routines[p].pc \notin {"idle", "returned"}

\* the callback of an operation: the call it makes on the session
Callback(op, s, remote) ==
    IF op = "Start" THEN SessionStart(s, remote)
    ELSE IF op = "Run" THEN SessionRun(s, remote)
    ELSE SessionOutput(s, remote)

\* caller p calls cmd.Run(), cmd.Output(), cmd.CombinedOutput() or cmd.Start()
Call(p) ==
    /\ routines[p].pc = "idle"
    /\ \E op \in {"Run", "Output", "CombinedOutput", "Start"} :
        routines' = [routines EXCEPT ![p] =
                        [Idle EXCEPT !.pc = "check", !.op = op,
                                     !.with = {q \in Callers : InFlight(q)}]]
    /\ UNCHANGED <<store, last, accepted, client, chans, cmd, sess, files>>

\* if c.session == nil { return ErrNilSession }; else the Close is deferred
CheckSession(p) ==
    /\ routines[p].pc = "check"
    /\ IF cmd.session = 0
       THEN /\ routines' = [routines EXCEPT ![p].pc = "returned",
                                            ![p].err = ErrNilSession]
            /\ last' = [op |-> routines[p].op, err |-> ErrNilSession, caller |-> p]
       ELSE /\ routines' = [routines EXCEPT ![p].pc = "execute"]
            /\ UNCHANGED last
    /\ UNCHANGED <<store, accepted, client, chans, cmd, sess, files>>

\* the caller itself makes the call on the session: Start, and execute for
\* a Cmd without a context
Execute(p) ==
    /\ routines[p].pc = "execute"
    /\ cmd.ctx = "none" \/ routines[p].op = "Start"
    /\ \E remote \in Remotes :
        LET r == Callback(routines[p].op, sess[cmd.session], remote)
        IN /\ sess' = [sess EXCEPT ![cmd.session] = r.s]
           /\ routines' = [routines EXCEPT ![p].pc = "close", ![p].err = r.err,
                                           ![p].reached = @ + 1]
    /\ UNCHANGED <<store, last, accepted, client, chans, cmd, files>>

\* executeWithCtx: done := make(chan results) and go func() { ... }()
Spawn(p) ==
    /\ routines[p].pc = "execute"
    /\ cmd.ctx # "none" /\ routines[p].op # "Start"
    /\ routines' = [routines EXCEPT ![p].pc = "select", ![p].g = "running"]
    /\ UNCHANGED <<store, last, accepted, client, chans, cmd, sess, files>>

\* the goroutine: output, err := callback(); it then has a result to send
\* on done
RunCallback(p) ==
    /\ routines[p].g = "running"
    /\ \E remote \in Remotes :
        LET r == Callback(routines[p].op, sess[cmd.session], remote)
        IN /\ sess' = [sess EXCEPT ![cmd.session] = r.s]
           /\ routines' = [routines EXCEPT ![p].g = "sending", ![p].res = r.err,
                                           ![p].reached = @ + 1]
    /\ UNCHANGED <<store, last, accepted, client, chans, cmd, files>>

\* case result := <-done: done has no buffer, the goroutine's send and the
\* caller's receive happen together; the goroutine then ends
ReceiveDone(p) ==
    /\ routines[p].pc = "select"
    /\ routines[p].g = "sending"
    /\ routines' = [routines EXCEPT ![p].pc = "close", ![p].g = "exited",
                                    ![p].err = routines[p].res]
    /\ UNCHANGED <<store, last, accepted, client, chans, cmd, sess, files>>

\* case <-c.ctx.Done(): Signal(SIGINT) and return nil, c.ctx.Err()
ReceiveCtx(p) ==
    /\ routines[p].pc = "select"
    /\ cmd.ctx = "done"
    /\ routines' = [routines EXCEPT ![p].pc = "close", ![p].err = CtxErr,
                                    ![p].byCtx = TRUE]
    /\ UNCHANGED <<store, last, accepted, client, chans, cmd, sess, files>>

\* the deferred c.session.Close() runs and the operation returns
Return(p) ==
    /\ routines[p].pc = "close"
    /\ sess' = [sess EXCEPT ![cmd.session] = SessionClose(@)]
    /\ routines' = [routines EXCEPT ![p].pc = "returned"]
    /\ last' = [op |-> routines[p].op, err |-> routines[p].err, caller |-> p]
    /\ UNCHANGED <<store, accepted, client, chans, cmd, files>>

\* the context of the Cmd is cancelled, or its deadline passes
CtxDone ==
    /\ cmd.ctx = "live"
    /\ cmd' = [cmd EXCEPT !.ctx = "done"]
    /\ UNCHANGED <<store, last, accepted, client, chans, sess, routines, files>>

\* a Cmd as Command or CommandContext returned it, or after SetSession(nil),
\* and no call made yet
InitRace ==
    /\ store = [status |-> "ok", lines |-> <<>>]
    /\ last = NoCall
    /\ accepted = {}
    /\ client = Connected
    /\ chans = <<"open">>
    /\ sess = <<NewSess(1)>>
    /\ cmd \in {newCommand(1), newCommandContext("live", 1),
                newCommandContext("done", 1), SetSession(newCommand(1), 0)}
    /\ routines = [p \in Callers |-> Idle]
    /\ files = NoFiles

NextRace ==
    \/ \E p \in Callers : Call(p)
    \/ \E p \in Callers : CheckSession(p)
    \/ \E p \in Callers : Execute(p)
    \/ \E p \in Callers : Spawn(p)
    \/ \E p \in Callers : RunCallback(p)
    \/ \E p \in Callers : ReceiveDone(p)
    \/ \E p \in Callers : ReceiveCtx(p)
    \/ \E p \in Callers : Return(p)
    \/ CtxDone

SpecRace == InitRace /\ [][NextRace]_vars

\* the Go scheduler runs every goroutine that can take a step: each step of
\* a caller inside an operation and of a spawned goroutine is taken if it
\* stays possible; calling and cancelling are up to the environment
FairRace ==
    \A p \in Callers :
        /\ WF_vars(CheckSession(p))
        /\ WF_vars(Execute(p))
        /\ WF_vars(Spawn(p))
        /\ WF_vars(RunCallback(p))
        /\ WF_vars(ReceiveDone(p))
        /\ WF_vars(ReceiveCtx(p))
        /\ WF_vars(Return(p))

SpecRaceFair == InitRace /\ [][NextRace]_vars /\ FairRace

\* two callers whose calls overlapped
Overlapped(p, q) == p # q /\ q \in routines[p].with

\* C21: of two session-consuming calls made concurrently on the same Cmd at
\* most one makes a call on the session; one that made none has returned
\* ErrNilSession once it has returned.
C21_OneConcurrentCallReachesSession ==
    \A p, q \in Callers :
        Overlapped(p, q)
        => /\ ~(routines[p].reached > 0 /\ routines[q].reached > 0)
           /\ \A r \in {p, q} :
                (routines[r].pc = "returned" /\ routines[r].reached = 0)
                    => routines[r].err = ErrNilSession

\* C27: after an operation has returned because the context was done, the
\* goroutine it spawned eventually ends: its send on done gets through.
C27_GoroutineEnds ==
    \A p \in Callers :
        (routines[p].pc = "returned" /\ routines[p].byCtx)
            ~> (routines[p].g = "exited")

----------------------------------------------------------------------------
(* File transfer over sftp: Upload, Download, ReadFile *)

\* buf := make([]byte, 1024) of ReadFile
bufLen == 1024

\* n bytes, each one set by its place in the file
Bytes(n) == [i \in 1..n |-> i % 251]

\* what a file holds: nothing, a word, a buffer full, and more than a buffer
Contents == { Bytes(n) : n \in {0, 8, bufLen, bufLen + 1} }

LocalPaths == {"a.txt"}
RemotePaths == {"/tmp/a.txt", "/tmp/b.txt"}

\* no file at the path; a file with its bytes, and whether they were synced
\* to the disk
NoFile == [exists |-> FALSE, content |-> <<>>, synced |-> FALSE]
File(content, synced) == [exists |-> TRUE, content |-> content, synced |-> synced]

\* the step of a transfer the environment fails: opening or creating the
\* local file, the sftp session, opening or creating the remote file, a
\* read or write of the copy, the sync
Fails == {"none", "local", "sftp", "remote", "copy", "sync"}

\* os.Open(src)
OsOpen(fs, src, fail) ==
    IF ~fs.local[src].exists THEN Err("no such file or directory")
    ELSE IF fail = "local" THEN Err("permission denied")
    ELSE NoErr

\* os.Create(dst): the file is created, or truncated when it is there
OsCreate(fs, dst, fail) ==
    IF fail = "local" THEN [err |-> Err("permission denied"), files |-> fs]
    ELSE [err |-> NoErr, files |-> [fs EXCEPT !.local[dst] = File(<<>>, FALSE)]]

\* Client.NewSftp: sftp.NewClient opens a session on the connection and
\* asks for the sftp subsystem
NewSftp(c, ch, fail) == NewSession(c, ch, fail # "sftp")

\* ftp.Create(dst): the remote file is created, or truncated
FtpCreate(fs, dst, fail) ==
    IF fail = "remote" THEN [err |-> Err("SSH_FX_PERMISSION_DENIED"), files |-> fs]
    ELSE [err |-> NoErr, files |-> [fs EXCEPT !.remote[dst] = File(<<>>, TRUE)]]

\* ftp.Open(src)
FtpOpen(fs, src, fail) ==
    IF ~fs.remote[src].exists THEN Err("SSH_FX_NO_SUCH_FILE")
    ELSE IF fail = "remote" THEN Err("SSH_FX_PERMISSION_DENIED")
    ELSE NoErr

\* io.Copy(dst, src) into a file that was just created or truncated: every
\* byte of src is written, or the bytes before the read or write that
\* fails, here the second
Copy(src, fail) ==
    IF fail = "copy"
    THEN [err |-> Err("copy"), written |-> SubSeq(src, 1, IF src = <<>> THEN 0 ELSE 1)]
    ELSE [err |-> NoErr, written |-> src]

\* local.Sync()
Sync(f, fail) ==
    IF fail = "sync" THEN [err |-> Err("sync"), file |-> f]
    ELSE [err |-> NoErr, file |-> [f EXCEPT !.synced = TRUE]]

\* the handles in the reverse of the order given
RECURSIVE Reverse(_)
Reverse(s) == IF s = <<>> THEN <<>> ELSE Append(Reverse(Tail(s)), Head(s))

\* a transfer returns: the deferred Close calls run, last one first
Transferred(err, fs, opened, output) ==
    [err |-> err, files |-> fs, opened |-> opened, closed |-> Reverse(opened),
     output |-> output]

\* Client.Upload
Upload(c, ch, fs, src, dst, fail) ==
    IF OsOpen(fs, src, fail) # NoErr
    THEN Transferred(OsOpen(fs, src, fail), fs, <<>>, <<>>)
    ELSE IF NewSftp(c, ch, fail) # NoErr
    THEN Transferred(NewSftp(c, ch, fail), fs, <<"local">>, <<>>)
    ELSE LET remote == FtpCreate(fs, dst, fail)
             copy == Copy(fs.local[src].content, fail)
         IN IF remote.err # NoErr
            THEN Transferred(remote.err, fs, <<"local", "ftp">>, <<>>)
            ELSE Transferred(copy.err,
                             [remote.files EXCEPT !.remote[dst].content = copy.written],
                             <<"local", "ftp", "remote">>, <<>>)

\* Client.Download returning after the copy, without local.Sync()
DownloadWithoutSync(c, ch, fs, src, dst, fail) ==
    LET local == OsCreate(fs, dst, fail)
        copy == Copy(fs.remote[src].content, fail)
    IN IF local.err # NoErr THEN Transferred(local.err, fs, <<>>, <<>>)
       ELSE IF NewSftp(c, ch, fail) # NoErr
       THEN Transferred(NewSftp(c, ch, fail), local.files, <<"local">>, <<>>)
       ELSE IF FtpOpen(fs, src, fail) # NoErr
       THEN Transferred(FtpOpen(fs, src, fail), local.files, <<"local", "ftp">>, <<>>)
       ELSE Transferred(copy.err,
                        [local.files EXCEPT !.local[dst].content = copy.written],
                        <<"local", "ftp", "remote">>, <<>>)

\* Client.Download
Download(c, ch, fs, src, dst, fail) ==
    LET local == OsCreate(fs, dst, fail)
        copy == Copy(fs.remote[src].content, fail)
        copied == [local.files EXCEPT !.local[dst].content = copy.written]
        sync == Sync(copied.local[dst], fail)
    IN IF local.err # NoErr THEN Transferred(local.err, fs, <<>>, <<>>)
       ELSE IF NewSftp(c, ch, fail) # NoErr
       THEN Transferred(NewSftp(c, ch, fail), local.files, <<"local">>, <<>>)
       ELSE IF FtpOpen(fs, src, fail) # NoErr
       THEN Transferred(FtpOpen(fs, src, fail), local.files, <<"local", "ftp">>, <<>>)
       ELSE IF copy.err # NoErr
       THEN Transferred(copy.err, copied, <<"local", "ftp", "remote">>, <<>>)
       ELSE Transferred(sync.err, [copied EXCEPT !.local[dst] = sync.file],
                        <<"local", "ftp", "remote">>, <<>>)

\* the for loop of ReadFile from the offset pos on: f.Read(buf) gives at
\* most n bytes, at is how many it gave; chunks is what the loop has so far
RECURSIVE ReadChunks(_, _, _, _)
ReadChunks(content, pos, chunks, n) ==
    LET at == IF Len(content) - pos < n THEN Len(content) - pos ELSE n
    IN IF at = 0 THEN chunks
       ELSE ReadChunks(content, pos + at,
                       chunks \o SubSeq(content, pos + 1, pos + at), n)

\* Client.ReadFile returning what the first f.Read(buf) gave
ReadFileFirstChunk(c, ch, fs, src, fail, n) ==
    IF NewSftp(c, ch, fail) # NoErr
    THEN Transferred(NewSftp(c, ch, fail), fs, <<>>, <<>>)
    ELSE IF FtpOpen(fs, src, fail) # NoErr
    THEN Transferred(FtpOpen(fs, src, fail), fs, <<"ftp">>, <<>>)
    ELSE IF fail = "copy"
    THEN Transferred(Err("read"), fs, <<"ftp", "remote">>, <<>>)
    ELSE Transferred(NoErr, fs, <<"ftp", "remote">>,
                     SubSeq(fs.remote[src].content, 1,
                            IF Len(fs.remote[src].content) < n
                            THEN Len(fs.remote[src].content) ELSE n))

\* Client.ReadFile: f.Read(buf) gives at most n <= len(buf) bytes a time
ReadFile(c, ch, fs, src, fail, n) ==
    IF NewSftp(c, ch, fail) # NoErr
    THEN Transferred(NewSftp(c, ch, fail), fs, <<>>, <<>>)
    ELSE IF FtpOpen(fs, src, fail) # NoErr
    THEN Transferred(FtpOpen(fs, src, fail), fs, <<"ftp">>, <<>>)
    ELSE IF fail = "copy"
    THEN Transferred(Err("read"), fs, <<"ftp", "remote">>, <<>>)
    ELSE Transferred(NoErr, fs, <<"ftp", "remote">>,
                     ReadChunks(fs.remote[src].content, 0, <<>>, n))

\* what a transfer leaves in the history: its arguments, what the
\* environment did and what it returned
TransferStep(op, r, src, dst, fail) ==
    /\ files' = r.files
    /\ last' = [op |-> op, err |-> r.err, src |-> src, dst |-> dst, fail |-> fail,
                opened |-> r.opened, closed |-> r.closed, output |-> r.output,
                connected |-> NewSession(client, chans, TRUE) = NoErr,
                srcWas |-> IF src \in LocalPaths THEN files.local[src].exists
                           ELSE files.remote[src].exists,
                after |-> IF last.err = NoErr THEN last.op ELSE "error"]
    /\ UNCHANGED <<store, accepted, client, chans, cmd, sess, routines>>

\* a caller calls cli.Upload(src, dst)
CallUpload ==
    /\ client.made
    /\ \E src \in LocalPaths, dst \in RemotePaths, fail \in Fails \ {"sync"} :
        TransferStep("Upload", Upload(client, chans, files, src, dst, fail),
                     src, dst, fail)

\* a caller calls cli.Download(src, dst)
CallDownload ==
    /\ client.made
    /\ \E src \in RemotePaths, dst \in LocalPaths, fail \in Fails :
        TransferStep("Download", Download(client, chans, files, src, dst, fail),
                     src, dst, fail)

\* a caller calls cli.ReadFile(src)
CallReadFile ==
    /\ client.made
    /\ \E src \in RemotePaths, fail \in Fails \ {"local", "sync"},
          n \in {bufLen, bufLen \div 2} :
        TransferStep("ReadFile", ReadFile(client, chans, files, src, fail, n),
                     src, "", fail)

\* a connected Client; a local file or none, and a remote file or none
InitSftp ==
    /\ store = [status |-> "ok", lines |-> <<>>]
    /\ last = NoCall
    /\ accepted = {}
    /\ client = Connected
    /\ chans = <<"open">>
    /\ cmd = NoCmd
    /\ sess = <<>>
    /\ routines = <<>>
    /\ \E l \in {NoFile} \cup {File(b, TRUE) : b \in Contents},
          r \in {NoFile} \cup {File(b, TRUE) : b \in Contents} :
        files = [local |-> [p \in LocalPaths |-> l],
                 remote |-> [p \in RemotePaths |->
                               IF p = "/tmp/b.txt" THEN r ELSE NoFile]]

NextSftp ==
    \/ CallUpload
    \/ CallDownload
    \/ CallReadFile
    \/ CallClose

SpecSftp == InitSftp /\ [][NextSftp]_vars

\* the first step of the last transfer that failed, by what the environment
\* did: Upload opens the local file, the sftp session and the remote file
\* and copies; Download creates the local file, opens the sftp session and
\* the remote file, copies and syncs
FirstFailure ==
    LET sftp == IF ~last.connected \/ last.fail = "sftp" THEN "sftp" ELSE "none"
    IN IF last.op = "Upload"
       THEN IF ~last.srcWas \/ last.fail = "local" THEN "local"
            ELSE IF sftp # "none" THEN sftp
            ELSE last.fail
       ELSE IF last.fail = "local" THEN "local"
            ELSE IF sftp # "none" THEN sftp
            ELSE IF ~last.srcWas THEN "remote"
            ELSE last.fail

\* the errors a step can fail with
StepErrors(step) ==
    IF step = "local" THEN {Err("no such file or directory"), Err("permission denied")}
    ELSE IF step = "sftp" THEN {Err("NewSession")}
    ELSE IF step = "remote" THEN {Err("SSH_FX_NO_SUCH_FILE"), Err("SSH_FX_PERMISSION_DENIED")}
    ELSE IF step = "copy" THEN {Err("copy")}
    ELSE IF step = "sync" THEN {Err("sync")}
    ELSE {NoErr}

\* the handles that were opened before a step
OpenedBefore(step) ==
    IF step = "local" THEN <<>>
    ELSE IF step = "sftp" THEN <<"local">>
    ELSE IF step = "remote" THEN <<"local", "ftp">>
    ELSE <<"local", "ftp", "remote">>

\* C25: Upload and Download return the error of the first step that fails;
\* every handle opened before that step was closed when the call returned;
\* Download returns nil only with the bytes of the remote file in the local
\* file and the local file synced.
C25_TransferClosesAndSyncs ==
    last.op \in {"Upload", "Download"}
    => /\ last.err \in StepErrors(FirstFailure)
       /\ last.opened = OpenedBefore(FirstFailure)
       /\ Len(last.closed) = Len(last.opened)
       /\ \A i \in 1..Len(last.opened) : \E j \in 1..Len(last.closed) :
            last.closed[j] = last.opened[i]
       /\ (last.op = "Download" /\ last.err = NoErr)
            => /\ files.local[last.dst].exists
               /\ files.local[last.dst].content = files.remote[last.src].content
               /\ files.local[last.dst].synced

\* C25 witness: a Download of more than a buffer of bytes returned nil,
\* right after an Upload
C25_Witness ==
    /\ last.op = "Download"
    /\ last.err = NoErr
    /\ Len(files.local[last.dst].content) > bufLen
    /\ last.after = "Upload"

\* C26: when Upload(src, dst) has returned nil, a ReadFile(dst) that follows
\* and returns nil returns the bytes of the local file src, and it returns
\* nil unless the transport fails it.
C26_UploadReadFileRoundTrip ==
    [][ ( /\ last.op = "Upload" /\ last.err = NoErr
          /\ last'.op = "ReadFile" /\ last'.src = last.dst )
        => /\ last'.err = NoErr => last'.output = files.local[last.src].content
           /\ last'.fail = "none" => last'.err = NoErr ]_vars

\* C26 witness: a file of one byte more than the buffer was uploaded and
\* read back at once
C26_Witness ==
    /\ last.op = "ReadFile"
    /\ last.after = "Upload"
    /\ last.src = "/tmp/a.txt"
    /\ last.err = NoErr
    /\ Len(last.output) = bufLen + 1
    /\ last.output = files.local["a.txt"].content

\* C31: a Download that fails at opening the sftp session or at opening the
\* remote source leaves the local destination as it was: no file is
\* created there and a file that is there keeps its bytes.
C31_FailedDownloadLeavesLocal ==
    [][ ( /\ last'.op = "Download"
          /\ last'.err \in StepErrors("sftp") \cup StepErrors("remote") )
        => files'.local[last'.dst] = files.local[last'.dst] ]_vars

\* C33: every call OutputPipe makes of the handler carries one whole line
\* of the remote output, the i-th call the i-th line, whatever the length
\* of the line; with a handler that returns no error there are as many
\* calls as lines.
C33_WholeLinePerCall ==
    (last.op = "OutputPipe" /\ last.streaming)
    => /\ Len(last.delivered) <= Len(last.out)
       /\ \A i \in 1..Len(last.delivered) :
            i <= Len(last.out) => last.delivered[i] = last.out[i]
       /\ last.failAt = 0 => Len(last.delivered) = Len(last.out)

----------------------------------------------------------------------------
(* Sessions of a Client that may not be connected *)

\* a Client as NewInsecure returns it: c.Client is nil until Dial succeeds
Undialled == [Connected EXCEPT !.conn = 0]

InitSession ==
    /\ store = [status |-> "ok", lines |-> <<>>]
    /\ last = NoCall
    /\ accepted = {}
    /\ client = Undialled
    /\ chans = <<>>
    /\ cmd = NoCmd
    /\ sess = <<>>
    /\ routines = <<>>
    /\ files = NoFiles

NextSession ==
    \/ CallDial
    \/ CallCommand
    \/ CallCommandContext
    \/ CallClientCombinedOutput
    \/ CallClose

SpecSession == InitSession /\ [][NextSession]_vars

\* the run-time panic of a call through a nil pointer
NilDereference == Err("nil pointer dereference")

\* the Client is in the Connected state: dialled, and not closed since
IsConnected == client.conn # 0 /\ chans[client.conn] = "open"

\* C32: on a Client that is not connected (never dialled, or closed)
\* Command, CommandContext and Client.CombinedOutput return an error, do
\* not panic, make no session and give no Cmd.
C32_SessionOnlyWhenConnected ==
    [][ ( /\ last'.op \in {"Command", "CommandContext", "Client.CombinedOutput"}
          /\ ~IsConnected )
        => /\ last'.err # NoErr
           /\ last'.err # NilDereference
           /\ sess' = sess
           /\ cmd' = cmd ]_vars

----------------------------------------------------------------------------
(* The package-level Ping *)

\* the ports Ping is called with
Ports == {-1, 0, DefaultPort, 2222}

\* the Options Ping builds for NewInsecure
PingOptions(addr, password, key, port) ==
    [UseAgent |-> FALSE, Key |-> key, KeyPassphrase |-> "", Password |-> password,
     Addr |-> addr, Port |-> IF port < 1 THEN DefaultPort ELSE port]

\* what Ping returns after cli.Ping() returned p on the Client c, had it no
\* deferred cli.Close()
PingNotClosed(c, p, ss) ==
    [err |-> p.err, chans |-> p.chans, sess |-> ss, store |-> p.store,
     dialled |-> Addr(c.addr, Itoa(c.port))]

\* the deferred cli.Close() of Ping, after cli.Ping() returned p on the
\* Client c: the error is that of cli.Ping()
PingClosed(c, p, ss) ==
    [err |-> p.err, chans |-> Close(p.client, p.chans, ss).chans,
     sess |-> Close(p.client, p.chans, ss).sess, store |-> p.store,
     dialled |-> Addr(c.addr, Itoa(c.port))]

\* Ping after NewInsecure returned r: its error, or cli.Ping() and the
\* deferred cli.Close()
PingOn(r, st, ch, ss, net, ip, hostkey, authOK) ==
    IF r.err # NoErr
    THEN [err |-> r.err, chans |-> ch, sess |-> ss, store |-> st, dialled |-> EmptyAddr]
    ELSE PingClosed(r.client, Ping(r.client, st, ch, net, ip, hostkey, authOK), ss)

\* the package-level Ping(addr, user, password, key, port): NewInsecure on
\* the options, cli.Ping(), and the deferred cli.Close();
\* [err, chans, sess, store, dialled]
PackagePing(st, ch, ss, opts, env, net, ip, hostkey, authOK) ==
    PingOn(NewInsecure(opts, env), st, ch, ss, net, ip, hostkey, authOK)

\* what a call of Ping leaves: the connections, the sessions, the file and
\* the history
PingStep(r, addr, password, key, port, net, authOK) ==
    /\ Len(r.chans) <= MaxChans
    /\ store' = r.store
    /\ chans' = r.chans
    /\ sess' = r.sess
    /\ last' = [op |-> "gosh.Ping", err |-> r.err, port |-> port,
                addr |-> addr, password |-> password, key |-> key,
                net |-> net, authOK |-> authOK, dialled |-> r.dialled,
                chansBefore |-> Len(chans)]
    /\ UNCHANGED <<accepted, client, cmd, routines, files>>

\* a caller calls Ping(addr, user, password, key, port)
CallPackagePing ==
    \E addr \in {"h1"}, password \in {"", "pw"}, key \in {"", "id_rsa"}, port \in Ports,
       env \in ClientEnvs, net \in {"ok", "fail"}, ip \in IPs, authOK \in BOOLEAN :
        /\ net = "fail" => (ip = "h1" /\ authOK)
        /\ PingStep(PackagePing(store, chans, sess,
                                 PingOptions(addr, password, key, port),
                                 env, net, ip, "K1", authOK),
                     addr, password, key, port, net, authOK)

\* the caller's own Client, dialled and closed, next to calls of Ping
NextPing ==
    \/ CallPackagePing
    \/ CallDial
    \/ CallClose

SpecPing == InitSession /\ [][NextPing]_vars

\* C34: when the package-level Ping has returned, with an error or without,
\* every connection it opened is closed, and it dialled the default port
\* when the port given was less than 1.
C34_PingLeavesNothingOpen ==
    last.op = "gosh.Ping"
    => /\ \A i \in (last.chansBefore + 1)..Len(chans) : chans[i] = "closed"
       /\ (last.port < 1 /\ last.dialled # EmptyAddr)
            => last.dialled = Addr(last.addr, Itoa(DefaultPort))
       /\ (last.port >= 1 /\ last.dialled # EmptyAddr)
            => last.dialled = Addr(last.addr, Itoa(last.port))

\* C34 witness: a Ping with port 0 dialled port 22, returned nil, and the
\* connection it opened is closed
C34_Witness ==
    /\ last.op = "gosh.Ping"
    /\ last.port = 0
    /\ last.err = NoErr
    /\ last.dialled = Addr("h1", "22")
    /\ Len(chans) = last.chansBefore + 1
    /\ chans[Len(chans)] = "closed"

====
